---- MODULE Spec2Model ----
(***************************************************************************)
(* Session lifecycle and reconciliation of claude-overwatch.               *)
(*                                                                         *)
(* The registry is SessionStore (packages/server/src/store.ts), the event  *)
(* processor is processEvent with its HTTP routes                          *)
(* (packages/server/src/index.ts) and the reconciler is SessionScanner     *)
(* (the scanner with process inspection).  Every HTTP handler and the scan *)
(* run to completion on the single JavaScript thread, so each is one       *)
(* action.  Hook events arrive for the ids of EventIds; the transcripts    *)
(* the scanner finds on disk belong to the other ids.                      *)
(***************************************************************************)
EXTENDS Naturals, Integers, Sequences, FiniteSets, TLC

VARIABLES
    sessions,            \* SessionStore.sessions: id -> Session (a Map)
    order,               \* insertion order of the Map's keys
    now,                 \* Date.now(), in ms
    rawLast,             \* raw_events: of each session id, the rows with the
                         \* greatest received_at, oldest first
    lastOp               \* the handler that ran last: on which id, or (a scan)
                         \* with which SessionScanner.processCountPerCwd

vars == <<sessions, order, now, rawLast, lastOp>>

----------------------------------------------------------------------------
(* Program constants *)

ACTIVE_THRESHOLD == 30000
IDLE_THRESHOLD == 300000
ACTIVE_FILE_THRESHOLD == 300000
SummaryLimit == 100

(* Bounds of the model *)

MaxProcs == 1          \* running processes in one snapshot, over all paths

Ids == {"s1", "s2"}
EventIds == {"s1"}                 \* the ids hook events arrive for
Paths == {"/a", "/b"}
EventCwds == {"/a"}                \* the cwd hook events carry
Missing == "<missing>"             \* a field the event does not carry
ProcessCwd == "/srv"               \* process.cwd() of the server
TranscriptInputs == {"t.jsonl"}
ToolCalls == { [tool_name |-> "Read", tool_input |-> "f"],
               [tool_name |-> "Bash", tool_input |-> "ls"] }
PendingKinds == {"permission_prompt", "idle_prompt", "elicitation_dialog"}
\* notification_type as it arrives: two of the recognized kinds and one other
NotificationTypes == {"permission_prompt", "idle_prompt", "auth_success"}
Messages == {"m1"}
null == "null"

\* The instants at which the clock is read: the start and both thresholds
TimePoints == {0, ACTIVE_THRESHOLD, IDLE_THRESHOLD}
ModTimes == {0, ACTIVE_THRESHOLD}

\* One entry of a sessions-index.json (SessionIndexEntry).  The transcript
\* file's mtime is the entry's modified time, and the transcript holds no
\* tool_use line.
IndexEntries ==
    [sessionId : Ids \ EventIds, projectPath : Paths, created : {0},
     modified : ModTimes]

\* The entries found under ~/.claude/projects in one pass, in reading order
Indexes == {<< >>} \cup {<<e>> : e \in IndexEntries}

\* The snapshots of getRunningClaudeProcesses, counted per cwd
Total(pc) == LET RECURSIVE Sum(_)
                 Sum(ps) == IF ps = {} THEN 0
                            ELSE LET p == CHOOSE x \in ps : TRUE
                                 IN  pc[p] + Sum(ps \ {p})
             IN  Sum(DOMAIN pc)
ProcessCounts == {pc \in [Paths -> 0..MaxProcs] : Total(pc) <= MaxProcs}

----------------------------------------------------------------------------
(* SessionStore *)

MapSet(S, id, rec) ==
    [i \in (DOMAIN S) \cup {id} |-> IF i = id THEN rec ELSE S[i]]

\* A Map that keeps a second entry when a key is set again
OrderSet_Duplicates(o, S, id) == Append(o, id)

OrderSet(o, S, id) == IF id \in DOMAIN S THEN o ELSE Append(o, id)

\* calculateStatus without the check for an ended session
calculateStatus_IgnoresEnded(session, t) ==
    IF t - session.lastActivity < ACTIVE_THRESHOLD THEN "active"
    ELSE IF t - session.lastActivity < IDLE_THRESHOLD THEN "idle"
    ELSE "stale"

\* calculateStatus without the idle band
calculateStatus_SkipsIdle(session, t) ==
    IF session.status = "ended" THEN "ended"
    ELSE IF t - session.lastActivity < ACTIVE_THRESHOLD THEN "active"
    ELSE "stale"

\* calculateStatus with both thresholds inclusive
calculateStatus_Inclusive(session, t) ==
    IF session.status = "ended" THEN "ended"
    ELSE IF t - session.lastActivity <= ACTIVE_THRESHOLD THEN "active"
    ELSE IF t - session.lastActivity <= IDLE_THRESHOLD THEN "idle"
    ELSE "stale"

calculateStatus(session, t) ==
    IF session.status = "ended" THEN "ended"
    ELSE IF t - session.lastActivity < ACTIVE_THRESHOLD THEN "active"
    ELSE IF t - session.lastActivity < IDLE_THRESHOLD THEN "idle"
    ELSE "stale"

\* A Session without projectName, which both createSession and the scanner
\* derive from projectPath (its last segment) and nothing ever changes.
NewSession(projectPath, transcriptPath, t) ==
    [ projectPath |-> projectPath,
      status |-> "active",
      lastActivity |-> t,
      lastTool |-> "",
      lastToolInput |-> "",
      startedAt |-> t,
      transcriptPath |-> transcriptPath,
      pendingState |-> null,
      pendingMessage |-> "" ]

createSession(S, id, projectPath, transcriptPath, t) ==
    MapSet(S, id, NewSession(projectPath, transcriptPath, t))

\* getSession that drops the pending state of a session it finds stale
getSession_ClearsStalePending(S, id, t) ==
    IF id \in DOMAIN S
    THEN LET st == calculateStatus(S[id], t)
         IN  [S EXCEPT ![id] =
                [@ EXCEPT !.status = st,
                          !.pendingState = IF st = "stale" THEN null ELSE @,
                          !.pendingMessage = IF st = "stale" THEN "" ELSE @]]
    ELSE S

getSession(S, id, t) ==
    IF id \in DOMAIN S
    THEN [S EXCEPT ![id].status = calculateStatus(S[id], t)]
    ELSE S

getAllSessions(S, t) ==
    [i \in DOMAIN S |-> [S[i] EXCEPT !.status = calculateStatus(S[i], t)]]

\* updateActivity that leaves the pending state as it was
updateActivity_KeepsPending(S, id, toolName, toolInput, t) ==
    IF id \in DOMAIN S
    THEN [S EXCEPT ![id] =
            [@ EXCEPT !.lastActivity = t,
                      !.lastTool = toolName,
                      !.lastToolInput = toolInput,
                      !.status = calculateStatus([S[id] EXCEPT !.lastActivity = t], t)]]
    ELSE S

updateActivity(S, id, toolName, toolInput, t) ==
    IF id \in DOMAIN S
    THEN [S EXCEPT ![id] =
            [@ EXCEPT !.lastActivity = t,
                      !.lastTool = toolName,
                      !.lastToolInput = toolInput,
                      !.status = calculateStatus([S[id] EXCEPT !.lastActivity = t], t),
                      !.pendingState = null,
                      !.pendingMessage = ""]]
    ELSE S

\* setPendingState that also forgets the last tool
setPendingState_ForgetsTool(S, id, pendingState, pendingMessage, t) ==
    IF id \in DOMAIN S
    THEN [S EXCEPT ![id] =
            [@ EXCEPT !.pendingState = pendingState,
                      !.pendingMessage = pendingMessage,
                      !.lastTool = "",
                      !.lastToolInput = "",
                      !.lastActivity = t]]
    ELSE S

setPendingState(S, id, pendingState, pendingMessage, t) ==
    IF id \in DOMAIN S
    THEN [S EXCEPT ![id] =
            [@ EXCEPT !.pendingState = pendingState,
                      !.pendingMessage = pendingMessage,
                      !.lastActivity = t]]
    ELSE S

Ended(session, t) ==
    [session EXCEPT !.pendingState = null,
                    !.pendingMessage = "",
                    !.status = "ended",
                    !.lastActivity = t]

endSession(S, id, t) ==
    IF id \in DOMAIN S THEN [S EXCEPT ![id] = Ended(S[id], t)] ELSE S

hasSession(S, id) == id \in DOMAIN S

\* importSession without the check for an existing id
importSession_Overwrites(S, id, session) == MapSet(S, id, session)

importSession(S, id, session) ==
    IF hasSession(S, id) THEN S ELSE MapSet(S, id, session)

\* toResponse: the status a reader is given
ResponseStatus(id) == calculateStatus(sessions[id], now)

toResponse(id, session, t) ==
    [ id |-> id,
      projectPath |-> session.projectPath,
      status |-> calculateStatus(session, t),
      lastActivity |-> session.lastActivity,
      lastTool |-> session.lastTool,
      lastToolInput |-> session.lastToolInput,
      startedAt |-> session.startedAt,
      transcriptPath |-> session.transcriptPath,
      pendingState |-> session.pendingState,
      pendingMessage |-> session.pendingMessage ]

\* The messages the store hands to the broadcaster
SessionUpdate(id, session, t) ==
    [type |-> "session-update", data |-> toResponse(id, session, t)]

SessionEnded(id) == [type |-> "session-ended", id |-> id]

\* What one call of a store method does besides changing the Map: whether it
\* found the id, what it returns, the messages it broadcasts and the
\* statements it runs on the sessions table, in order.
StoreCall(call, id, found, returned, sent, db) ==
    [call |-> call, id |-> id, found |-> found, returned |-> returned,
     sent |-> sent, db |-> db]

\* The statements a call runs, in the order of the method's body: what it
\* does to the Map or to the session in it, its db calls, and its broadcast
Steps(call, steps) == call @@ [steps |-> steps]

NotFound(call, id) ==
    Steps(StoreCall(call, id, FALSE, "undefined", << >>, << >>), << >>)

\* updateActivity and endSession resolve an open permission request first
ResolveStep(S, id) ==
    IF S[id].pendingState = "permission_prompt"
    THEN <<"db.resolvePermissionRequest">>
    ELSE << >>

\* createSession that broadcasts before it writes
createSessionCall_NotifiesFirst(S, id, projectPath, transcriptPath, t) ==
    Steps(StoreCall("createSession", id, hasSession(S, id), "session",
                    <<SessionUpdate(id, NewSession(projectPath, transcriptPath, t), t)>>,
                    <<"upsertSession">>),
          <<"sessions.set", "broadcaster.broadcastSessionUpdate",
            "db.upsertSession", "db.logEvent">>)

createSessionCall(S, id, projectPath, transcriptPath, t) ==
    Steps(StoreCall("createSession", id, hasSession(S, id), "session",
                    <<SessionUpdate(id, NewSession(projectPath, transcriptPath, t), t)>>,
                    <<"upsertSession">>),
          <<"sessions.set", "db.upsertSession", "db.logEvent",
            "broadcaster.broadcastSessionUpdate">>)

updateActivityCall(S, id, toolName, toolInput, t) ==
    IF hasSession(S, id)
    THEN Steps(StoreCall("updateActivity", id, TRUE, "session",
                         <<SessionUpdate(id, updateActivity(S, id, toolName, toolInput, t)[id], t)>>,
                         <<"updateSessionActivity">>),
               ResolveStep(S, id)
                  \o <<"session.assign", "db.updateSessionActivity", "db.logEvent",
                       "broadcaster.broadcastSessionUpdate">>)
    ELSE NotFound("updateActivity", id)

\* setPendingState that does not broadcast
setPendingStateCall_Silent(S, id, pendingState, pendingMessage, t) ==
    IF hasSession(S, id)
    THEN StoreCall("setPendingState", id, TRUE, "session", << >>, <<"updatePendingState">>)
    ELSE NotFound("setPendingState", id)

setPendingStateCall(S, id, pendingState, pendingMessage, t) ==
    IF hasSession(S, id)
    THEN Steps(StoreCall("setPendingState", id, TRUE, "session",
                         <<SessionUpdate(id, setPendingState(S, id, pendingState, pendingMessage, t)[id], t)>>,
                         <<"updatePendingState">>),
               <<"session.assign", "db.updatePendingState">>
                  \o (IF pendingState = "permission_prompt"
                      THEN <<"db.logPermissionRequest">> ELSE << >>)
                  \o <<"broadcaster.broadcastSessionUpdate">>)
    ELSE NotFound("setPendingState", id)

endSessionCall(S, id, t) ==
    IF hasSession(S, id)
    THEN Steps(StoreCall("endSession", id, TRUE, "session", <<SessionEnded(id)>>,
                         <<"endSession">>),
               ResolveStep(S, id)
                  \o <<"session.assign", "db.endSession", "db.logEvent",
                       "broadcaster.broadcastSessionEnded">>)
    ELSE NotFound("endSession", id)

\* importSession returns false when it finds the id and true when it inserts
importSessionCall(S, id, session) ==
    IF hasSession(S, id)
    THEN Steps(StoreCall("importSession", id, TRUE, "false", << >>, << >>), << >>)
    ELSE Steps(StoreCall("importSession", id, FALSE, "true", << >>, <<"upsertSession">>),
               <<"sessions.set", "db.upsertSession">>)

----------------------------------------------------------------------------
(* processEvent and the routes *)

summarizeToolInput(input) ==
    IF input = Missing THEN ""
    ELSE IF Len(input) > SummaryLimit THEN SubSeq(input, 1, SummaryLimit) \o "..."
    ELSE input

OrDefault(v, d) == IF v = Missing \/ v = "" THEN d ELSE v

RawEvent(eventType, notificationType, message) ==
    [event_type |-> eventType, notification_type |-> notificationType,
     message |-> message]

NoRawEvent == RawEvent("none", Missing, Missing)

NoProcesses == [p \in Paths |-> 0]

Did(op, id) == [op |-> op, id |-> id, processCountPerCwd |-> NoProcesses]

\* db.logRawEvent.  A row without session_id is a row of no session.  The
\* events of one session are received in different milliseconds, so the new
\* row alone carries the greatest received_at.
logRawEvent(raw, id, row) ==
    IF id = Missing THEN raw ELSE [raw EXCEPT ![id] = <<row>>]

\* POST /events, eventType session-start
EventSessionStart(id, cwd, tp) ==
    /\ sessions' = createSession(sessions, id, OrDefault(cwd, ProcessCwd),
                                 OrDefault(tp, ""), now)
    /\ order' = OrderSet(order, sessions, id)
    /\ rawLast' = logRawEvent(rawLast, id, RawEvent("session-start", Missing, Missing))
    /\ lastOp' = Did("session-start", id)
    /\ UNCHANGED now

\* The tool event that creates an unknown session and drops its activity
ToolEventResult_CreatesOnly(S, id, cwd, tp, call, t) ==
    IF id \in DOMAIN S
    THEN updateActivity(S, id, OrDefault(call.tool_name, "unknown"),
                        summarizeToolInput(call.tool_input), t)
    ELSE createSession(S, id, OrDefault(cwd, ProcessCwd), OrDefault(tp, ""), t)

\* POST /events, eventType pre-tool or post-tool
ToolEventResult(S, id, cwd, tp, call, t) ==
    LET toolName == OrDefault(call.tool_name, "unknown")
        toolInput == summarizeToolInput(call.tool_input)
    IN  IF id \in DOMAIN S
        THEN updateActivity(S, id, toolName, toolInput, t)
        ELSE updateActivity(
                createSession(S, id, OrDefault(cwd, ProcessCwd), OrDefault(tp, ""), t),
                id, toolName, toolInput, t)

EventTool(id, cwd, tp, call) ==
    /\ sessions' = ToolEventResult(sessions, id, cwd, tp, call, now)
    /\ order' = OrderSet(order, sessions, id)
    /\ rawLast' = logRawEvent(rawLast, id, RawEvent("tool", Missing, Missing))
    /\ lastOp' = Did("tool", id)
    /\ UNCHANGED now

\* POST /events, eventType session-end
EventSessionEnd(id) ==
    /\ sessions' = endSession(sessions, id, now)
    /\ rawLast' = logRawEvent(rawLast, id, RawEvent("session-end", Missing, Missing))
    /\ lastOp' = Did("session-end", id)
    /\ UNCHANGED <<order, now>>

\* The notification handler that records a regular notification as a tool
NotificationResult_AsTool(S, id, cwd, tp, ntype, message, t) ==
    LET S1 == IF id \in DOMAIN S
              THEN getSession(S, id, t)
              ELSE createSession(S, id, OrDefault(cwd, ProcessCwd), OrDefault(tp, ""), t)
    IN  IF ntype \in PendingKinds
        THEN setPendingState(S1, id, ntype, OrDefault(message, ""), t)
        ELSE updateActivity(getSession(S1, id, t), id, "unknown", "", t)

\* POST /events, eventType notification
NotificationResult(S, id, cwd, tp, ntype, message, t) ==
    LET S1 == IF id \in DOMAIN S
              THEN getSession(S, id, t)
              ELSE createSession(S, id, OrDefault(cwd, ProcessCwd), OrDefault(tp, ""), t)
    IN  IF ntype \in PendingKinds
        THEN setPendingState(S1, id, ntype, OrDefault(message, ""), t)
        ELSE LET S2 == getSession(S1, id, t)
             IN  updateActivity(S2, id, S2[id].lastTool, S2[id].lastToolInput, t)

EventNotification(id, cwd, tp, ntype, message) ==
    /\ sessions' = NotificationResult(sessions, id, cwd, tp, ntype, message, now)
    /\ order' = OrderSet(order, sessions, id)
    /\ rawLast' = logRawEvent(rawLast, id, RawEvent("notification", ntype, message))
    /\ lastOp' = Did("notification", id)
    /\ UNCHANGED now

\* GET /sessions, GET /health, and the list sent to a connecting client
GetSessions ==
    /\ sessions' = getAllSessions(sessions, now)
    /\ lastOp' = Did("list", Missing)
    /\ UNCHANGED <<order, now, rawLast>>

\* GET /sessions/:id
GetSessionById(id) ==
    /\ sessions' = getSession(sessions, id, now)
    /\ lastOp' = Did("get", id)
    /\ UNCHANGED <<order, now, rawLast>>

\* Time passes
Tick ==
    /\ \E t \in TimePoints : t > now /\ now' = t
    /\ lastOp' = Did("tick", Missing)
    /\ UNCHANGED <<sessions, order, rawLast>>

----------------------------------------------------------------------------
(* SessionScanner *)

\* Array.prototype.sort with a descending comparator on key: stable
InsertDesc(sorted, e, key) ==
    LET k == Cardinality({i \in 1..Len(sorted) : key[sorted[i]] >= key[e]})
    IN  SubSeq(sorted, 1, k) \o <<e>> \o SubSeq(sorted, k + 1, Len(sorted))

RECURSIVE SortDesc(_, _)
SortDesc(s, key) ==
    IF s = << >> THEN << >>
    ELSE InsertDesc(SortDesc(SubSeq(s, 1, Len(s) - 1), key), s[Len(s)], key)

Take(s, n) == SubSeq(s, 1, IF n < Len(s) THEN n ELSE Len(s))

RECURSIVE Concat(_)
Concat(ss) == IF ss = << >> THEN << >> ELSE Head(ss) \o Concat(Tail(ss))

getProcessCount(pc, projectPath) ==
    IF projectPath \in DOMAIN pc THEN pc[projectPath] ELSE 0

\* Whether a comes before b in store.getAllSessions(): the Map's values in
\* insertion order, sorted by lastActivity, latest first (the sort is stable)
Position(o, id) == CHOOSE i \in 1..Len(o) : o[i] = id

\* Before with the sort ascending: the oldest first
Before_OldestFirst(S, o, a, b) ==
    \/ S[a].lastActivity < S[b].lastActivity
    \/ /\ S[a].lastActivity = S[b].lastActivity
       /\ Position(o, a) < Position(o, b)

Before(S, o, a, b) ==
    \/ S[a].lastActivity > S[b].lastActivity
    \/ /\ S[a].lastActivity = S[b].lastActivity
       /\ Position(o, a) < Position(o, b)

\* The index of a non-ended session in its projectPath's array, from 0
IndexInPath(S, o, id) ==
    Cardinality({ j \in DOMAIN S : /\ S[j].status # "ended"
                                   /\ S[j].projectPath = S[id].projectPath
                                   /\ Before(S, o, j, id) })

\* DeadSessions with the loop starting one past processCount
DeadSessions_OffByOne(S, o, pc) ==
    { id \in DOMAIN S :
        /\ S[id].status # "ended"
        /\ IndexInPath(S, o, id) > getProcessCount(pc, S[id].projectPath) }

\* DeadSessions that does not skip the sessions already ended
DeadSessions_EndsAgain(S, o, pc) ==
    { id \in DOMAIN S :
        IndexInPath(S, o, id) >= getProcessCount(pc, S[id].projectPath) }

\* The ids cleanupDeadSessions passes to store.endSession: those at index
\* processCount and beyond (with processCount 0 that is all of them)
DeadSessions(S, o, pc) ==
    { id \in DOMAIN S :
        /\ S[id].status # "ended"
        /\ IndexInPath(S, o, id) >= getProcessCount(pc, S[id].projectPath) }

cleanupDeadSessions(S, o, pc, t) ==
    LET S0 == getAllSessions(S, t)
        dead == DeadSessions(S0, o, pc)
    IN  [i \in DOMAIN S0 |-> IF i \in dead THEN Ended(S0[i], t) ELSE S0[i]]

\* The row the query of getLastPendingStateForSession returns: ORDER BY
\* received_at DESC LIMIT 1 picks one of the rows with the greatest
\* received_at, and SQL leaves open which
LastEventOf(rows) ==
    IF rows = << >> THEN {NoRawEvent} ELSE {rows[i] : i \in 1..Len(rows)}

LastEvents(raw) ==
    { last \in [DOMAIN raw -> UNION {LastEventOf(raw[i]) : i \in DOMAIN raw}] :
        \A i \in DOMAIN raw : last[i] \in LastEventOf(raw[i]) }

\* db.getLastPendingStateForSession, raw[id] being the row its query returned
getLastPendingStateForSession(raw, id) ==
    IF raw[id].event_type = "notification" /\ raw[id].notification_type \in PendingKinds
    THEN [pendingState |-> raw[id].notification_type,
          message |-> OrDefault(raw[id].message, "")]
    ELSE [pendingState |-> null, message |-> ""]

isRecentlyModified(entry, t) == t - entry.modified < ACTIVE_FILE_THRESHOLD

ScannedSession(entry, raw, t) ==
    LET lastPending == getLastPendingStateForSession(raw, entry.sessionId)
    IN  [ projectPath |-> entry.projectPath,
          status |-> IF isRecentlyModified(entry, t) THEN "active" ELSE "stale",
          lastActivity |-> entry.modified,
          lastTool |-> "",
          lastToolInput |-> "",
          startedAt |-> entry.created,
          transcriptPath |-> "t.jsonl",
          pendingState |-> lastPending.pendingState,
          pendingMessage |-> lastPending.message ]

\* The paths of the entries, in order of first appearance (a Map's key order)
RECURSIVE PathsInOrder(_)
PathsInOrder(entries) ==
    IF entries = << >> THEN << >>
    ELSE LET rest == PathsInOrder(SubSeq(entries, 1, Len(entries) - 1))
             p == entries[Len(entries)].projectPath
         IN  IF \E i \in 1..Len(rest) : rest[i] = p THEN rest ELSE Append(rest, p)

\* scanProjectDir: the entries to import, in order
scanProjectDir(S, entries, pc) ==
    LET key == [e \in {entries[i] : i \in 1..Len(entries)} |-> e.modified]
        ofPath(p) == SelectSeq(entries, LAMBDA e : e.projectPath = p)
        toImport(p) == Take(SortDesc(ofPath(p), key), getProcessCount(pc, p))
        groups == PathsInOrder(entries)
        picked == Concat([g \in 1..Len(groups) |-> toImport(groups[g])])
    IN  SelectSeq(picked, LAMBDA e : ~hasSession(S, e.sessionId))

RECURSIVE ImportAll(_, _, _, _)
ImportAll(S, found, raw, t) ==
    IF found = << >> THEN S
    ELSE ImportAll(importSession(S, Head(found).sessionId,
                                 ScannedSession(Head(found), raw, t)),
                   Tail(found), raw, t)

RECURSIVE ImportOrder(_, _, _)
ImportOrder(o, S, found) ==
    IF found = << >> THEN o
    ELSE ImportOrder(OrderSet(o, S, Head(found).sessionId),
                     MapSet(S, Head(found).sessionId, 0), Tail(found))

\* The calls of store.endSession a cleanupDeadSessions makes, in order: per
\* projectPath, in order of first appearance, the sessions from index
\* processCount on, and then with processCount 0 every session once more
cleanupCalls(S, o, pc, t) ==
    LET S0 == getAllSessions(S, t)
        sorted == SortDesc(o, [id \in DOMAIN S0 |-> S0[id].lastActivity])
        live == SelectSeq(sorted, LAMBDA id : S0[id].status # "ended")
        entries == [i \in 1..Len(live) |->
                      [sessionId |-> live[i], projectPath |-> S0[live[i]].projectPath]]
        groups == PathsInOrder(entries)
        ofPath(p) == SelectSeq(live, LAMBDA id : S0[id].projectPath = p)
        excess(p) == SubSeq(ofPath(p), getProcessCount(pc, p) + 1, Len(ofPath(p)))
        again(p) == IF getProcessCount(pc, p) = 0 THEN ofPath(p) ELSE << >>
        ended == Concat([g \in 1..Len(groups) |-> excess(groups[g]) \o again(groups[g])])
    IN  [i \in 1..Len(ended) |-> endSessionCall(S0, ended[i], t)]

RECURSIVE importCalls(_, _, _, _)
importCalls(S, found, raw, t) ==
    IF found = << >> THEN << >>
    ELSE LET id == Head(found).sessionId
             session == ScannedSession(Head(found), raw, t)
         IN  <<importSessionCall(S, id, session)>>
             \o importCalls(importSession(S, id, session), Tail(found), raw, t)

\* The store calls of one pass of scan() over the store S with key order o:
\* pc is the processCountPerCwd of refreshRunningProcesses, index what the
\* pass reads from disk, raw the row getLastPendingStateForSession finds
scanCalls(S, o, pc, index, raw, t) ==
    LET cleaned == cleanupDeadSessions(S, o, pc, t)
        found == scanProjectDir(cleaned, index, pc)
    IN  cleanupCalls(S, o, pc, t) \o importCalls(cleaned, found, raw, t)

ScanEffect(pc, index, raw) ==
    LET cleaned == cleanupDeadSessions(sessions, order, pc, now)
        found == scanProjectDir(cleaned, index, pc)
    IN  /\ sessions' = ImportAll(cleaned, found, raw, now)
        /\ order' = ImportOrder(order, cleaned, found)
        /\ UNCHANGED <<now, rawLast>>

ScanWith(pc, index) ==
    \E raw \in LastEvents(rawLast) :
        /\ ScanEffect(pc, index, raw)
        /\ lastOp' = [Did("scan", Missing) EXCEPT !.processCountPerCwd = pc]

\* scan(): refreshRunningProcesses, cleanupDeadSessions, scanProjectDir, import.
\* pc is processCountPerCwd: the field is overwritten when a pass starts and
\* read only during the pass.  index is what the pass finds on disk.
Scan(pc) == \E index \in Indexes : ScanWith(pc, index)

----------------------------------------------------------------------------

Init ==
    /\ sessions = << >>
    /\ order = << >>
    /\ now = 0
    /\ rawLast = [i \in Ids |-> << >>]
    /\ lastOp = Did("init", Missing)

Next ==
    \/ \E id \in EventIds, cwd \in EventCwds, tp \in TranscriptInputs :
          EventSessionStart(id, cwd, tp)
    \/ \E id \in EventIds, cwd \in EventCwds, tp \in TranscriptInputs, call \in ToolCalls :
          EventTool(id, cwd, tp, call)
    \/ \E id \in EventIds : EventSessionEnd(id)
    \/ \E id \in EventIds, cwd \in EventCwds, tp \in TranscriptInputs,
          ntype \in NotificationTypes, message \in Messages :
          EventNotification(id, cwd, tp, ntype, message)
    \/ GetSessions
    \/ \E id \in EventIds : GetSessionById(id)
    \/ Tick
    \/ \E pc \in ProcessCounts : Scan(pc)

Spec == Init /\ [][Next]_vars

TypeOK ==
    /\ DOMAIN sessions \subseteq Ids
    /\ now \in TimePoints

----------------------------------------------------------------------------
(* The server restarted: the store as ensureInitialized loads it from the  *)
(* sessions table, raw_events as the earlier run left it, and the initial  *)
(* scan of startPeriodicScan.                                              *)

MaxScanProcs == 2      \* running processes in the snapshot of the initial scan

ScanIds == {"s1", "s2", "s3"}
TrackedIds == {"s1", "s2"}         \* the ids that can have a row in sessions
ScanModTimes == {0, ACTIVE_THRESHOLD, 2 * ACTIVE_THRESHOLD}
ScanProcessCounts == {pc \in [Paths -> 0..MaxScanProcs] : Total(pc) <= MaxScanProcs}

\* sessions-index.json of the project directory of ProjectPath: at most one
\* entry for each id, in the order of the ids
ProjectPath == "/a"

OptionalEntry(id) ==
    {<< >>} \cup
    { <<[sessionId |-> id, projectPath |-> ProjectPath, created |-> 0, modified |-> m]>> :
        m \in ScanModTimes }

ScanIndexes ==
    { a \o b \o c : a \in OptionalEntry("s1"), b \in OptionalEntry("s2"),
                    c \in OptionalEntry("s3") }

\* The rows of the sessions table (rowToSession)
StoredSessions ==
    [ projectPath : Paths,
      status : {"active", "ended"},
      lastActivity : {0, ACTIVE_THRESHOLD},
      lastTool : {""},
      lastToolInput : {""},
      startedAt : {0},
      transcriptPath : {"t.jsonl"},
      pendingState : {null},
      pendingMessage : {""} ]

StoredRegistries == UNION { [T -> StoredSessions] : T \in SUBSET TrackedIds }

\* db.getAllSessions: ORDER BY last_activity DESC, which is the order in
\* which ensureInitialized fills the Map
LoadOrders(S) ==
    { o \in UNION { [1..n -> DOMAIN S] : n \in {Cardinality(DOMAIN S)} } :
        /\ \A i, j \in DOMAIN o : i # j => o[i] # o[j]
        /\ \A i, j \in DOMAIN o : i < j => S[o[i]].lastActivity >= S[o[j]].lastActivity }

\* What raw_events holds for an id that has no row in sessions (the row of
\* raw_events is written first, and apart from the session's): its rows of
\* the latest millisecond, oldest first
StoredRawLogs ==
    LET tool == RawEvent("tool", Missing, Missing)
        prompt == RawEvent("notification", "permission_prompt", "m1")
        other == RawEvent("notification", "auth_success", "m1")
    IN  { << >>, <<tool>>, <<prompt>>, <<other>>, <<prompt, tool>> }

InitRestart ==
    /\ now = IDLE_THRESHOLD
    /\ sessions \in StoredRegistries
    /\ order \in LoadOrders(sessions)
    /\ \E log \in StoredRawLogs :
          rawLast = [i \in ScanIds |-> IF i \in TrackedIds THEN << >> ELSE log]
    /\ lastOp = Did("restart", Missing)

\* The initial scan, with what it read
InitialScan(pc, index) ==
    /\ lastOp.op = "restart"
    /\ \E raw \in LastEvents(rawLast) :
          /\ ScanEffect(pc, index, raw)
          /\ lastOp' = [ op |-> "scan", id |-> Missing, processCountPerCwd |-> pc,
                         index |-> index,
                         calls |-> scanCalls(sessions, order, pc, index, raw, now) ]

NextRestart ==
    \E pc \in ScanProcessCounts, index \in ScanIndexes : InitialScan(pc, index)

RestartSpec == InitRestart /\ [][NextRestart]_vars
----------------------------------------------------------------------------
(* The store's methods called one at a time, as processEvent and the       *)
(* scanner call them, with what each call returned, broadcast and wrote.   *)

StoreTools == {"Read"}
StorePendingKinds == {"permission_prompt"}
EventTypes == {"session-start", "pre-tool", "notification"}

\* The records the scanner hands to importSession
ImportedSessions ==
    { [NewSession("/b", "t.jsonl", 0) EXCEPT !.status = "stale",
                                            !.pendingState = k,
                                            !.pendingMessage = IF k = null THEN "" ELSE "m1"] :
        k \in {null, "idle_prompt"} }

Called(op, id, calls) ==
    [op |-> op, id |-> id, processCountPerCwd |-> NoProcesses, calls |-> calls]

CallCreateSession(id, projectPath, transcriptPath) ==
    /\ sessions' = createSession(sessions, id, projectPath, transcriptPath, now)
    /\ order' = OrderSet(order, sessions, id)
    /\ lastOp' = Called("createSession", id,
                        <<createSessionCall(sessions, id, projectPath, transcriptPath, now)>>)
    /\ UNCHANGED <<now, rawLast>>

CallUpdateActivity(id, toolName, toolInput) ==
    /\ sessions' = updateActivity(sessions, id, toolName, toolInput, now)
    /\ lastOp' = Called("updateActivity", id,
                        <<updateActivityCall(sessions, id, toolName, toolInput, now)>>)
    /\ UNCHANGED <<order, now, rawLast>>

CallSetPendingState(id, pendingState, pendingMessage) ==
    /\ sessions' = setPendingState(sessions, id, pendingState, pendingMessage, now)
    /\ lastOp' = Called("setPendingState", id,
                        <<setPendingStateCall(sessions, id, pendingState, pendingMessage, now)>>)
    /\ UNCHANGED <<order, now, rawLast>>

CallEndSession(id) ==
    /\ sessions' = endSession(sessions, id, now)
    /\ lastOp' = Called("endSession", id, <<endSessionCall(sessions, id, now)>>)
    /\ UNCHANGED <<order, now, rawLast>>

CallImportSession(id, session) ==
    /\ sessions' = importSession(sessions, id, session)
    /\ order' = OrderSet(order, sessions, id)
    /\ lastOp' = Called("importSession", id, <<importSessionCall(sessions, id, session)>>)
                    @@ [session |-> session]
    /\ UNCHANGED <<now, rawLast>>

\* The handler that goes on without a session id and creates a session
\* under the missing id
EventWithoutSessionId_Processes(type) ==
    /\ sessions' = createSession(sessions, Missing, ProcessCwd, "", now)
    /\ order' = OrderSet(order, sessions, Missing)
    /\ rawLast' = logRawEvent(rawLast, Missing, RawEvent(type, Missing, Missing))
    /\ lastOp' = Called(type, Missing,
                        <<createSessionCall(sessions, Missing, ProcessCwd, "", now)>>)
    /\ UNCHANGED now

\* POST /events with a payload that has no session_id: the raw row is
\* written with session_id NULL and processEvent returns at once
EventWithoutSessionId(type) ==
    /\ rawLast' = logRawEvent(rawLast, Missing, RawEvent(type, Missing, Missing))
    /\ lastOp' = Called(type, Missing, << >>)
    /\ UNCHANGED <<sessions, order, now>>

StoreTick ==
    /\ \E t \in TimePoints : t > now /\ now' = t
    /\ lastOp' = Called("tick", Missing, << >>)
    /\ UNCHANGED <<sessions, order, rawLast>>

InitStore ==
    /\ sessions = << >>
    /\ order = << >>
    /\ now = 0
    /\ rawLast = [i \in Ids |-> << >>]
    /\ lastOp = Called("init", Missing, << >>)

NextStore ==
    \/ \E id \in Ids, path \in EventCwds, tp \in TranscriptInputs :
          CallCreateSession(id, path, tp)
    \/ \E id \in Ids, tool \in StoreTools : CallUpdateActivity(id, tool, "f")
    \/ \E id \in Ids, kind \in StorePendingKinds, message \in Messages :
          CallSetPendingState(id, kind, message)
    \/ \E id \in Ids : CallEndSession(id)
    \/ \E id \in Ids, session \in ImportedSessions : CallImportSession(id, session)
    \/ \E type \in EventTypes : EventWithoutSessionId(type)
    \/ StoreTick

StoreSpec == InitStore /\ [][NextStore]_vars

----------------------------------------------------------------------------
(* The store's methods when the statement on the sessions table throws.    *)
(* No method catches: the assignments made before the statement stay, and  *)
(* what follows it in the method, the broadcast included, does not run.    *)

Failed(call) == [call EXCEPT !.returned = "throws", !.sent = << >>, !.db = << >>]

CreateSessionWriteFails(id, projectPath, transcriptPath) ==
    /\ sessions' = createSession(sessions, id, projectPath, transcriptPath, now)
    /\ order' = OrderSet(order, sessions, id)
    /\ lastOp' = Called("writeFailed", id,
                        <<Failed(createSessionCall(sessions, id, projectPath, transcriptPath, now))>>)
    /\ UNCHANGED <<now, rawLast>>

UpdateActivityWriteFails(id, toolName, toolInput) ==
    /\ hasSession(sessions, id)
    /\ sessions' = updateActivity(sessions, id, toolName, toolInput, now)
    /\ lastOp' = Called("writeFailed", id,
                        <<Failed(updateActivityCall(sessions, id, toolName, toolInput, now))>>)
    /\ UNCHANGED <<order, now, rawLast>>

SetPendingStateWriteFails(id, pendingState, pendingMessage) ==
    /\ hasSession(sessions, id)
    /\ sessions' = setPendingState(sessions, id, pendingState, pendingMessage, now)
    /\ lastOp' = Called("writeFailed", id,
                        <<Failed(setPendingStateCall(sessions, id, pendingState, pendingMessage, now))>>)
    /\ UNCHANGED <<order, now, rawLast>>

EndSessionWriteFails(id) ==
    /\ hasSession(sessions, id)
    /\ sessions' = endSession(sessions, id, now)
    /\ lastOp' = Called("writeFailed", id, <<Failed(endSessionCall(sessions, id, now))>>)
    /\ UNCHANGED <<order, now, rawLast>>

NextWriteFails ==
    \/ \E id \in Ids, path \in EventCwds, tp \in TranscriptInputs :
          CreateSessionWriteFails(id, path, tp)
    \/ \E id \in Ids, tool \in StoreTools : UpdateActivityWriteFails(id, tool, "f")
    \/ \E id \in Ids, kind \in StorePendingKinds, message \in Messages :
          SetPendingStateWriteFails(id, kind, message)
    \/ \E id \in Ids : EndSessionWriteFails(id)

WriteFailSpec == InitStore /\ [][NextStore \/ NextWriteFails]_vars

----------------------------------------------------------------------------
(* The sessions table behind the store: every store method writes through  *)
(* to it, and a restart fills the Map from it.  lastOp.table is the table  *)
(* after the operation.                                                    *)

\* db.upsertSession: INSERT ... ON CONFLICT(id) DO UPDATE SET status,
\* last_activity, last_tool, last_tool_input, pending_state, pending_message
dbUpsertSession(T, id, session) ==
    IF id \in DOMAIN T
    THEN [T EXCEPT ![id] =
            [@ EXCEPT !.status = session.status,
                      !.lastActivity = session.lastActivity,
                      !.lastTool = session.lastTool,
                      !.lastToolInput = session.lastToolInput,
                      !.pendingState = session.pendingState,
                      !.pendingMessage = session.pendingMessage]]
    ELSE MapSet(T, id, session)

dbUpdateSessionActivity(T, id, lastActivity, lastTool, lastToolInput, status) ==
    IF id \in DOMAIN T
    THEN [T EXCEPT ![id] =
            [@ EXCEPT !.lastActivity = lastActivity,
                      !.lastTool = lastTool,
                      !.lastToolInput = lastToolInput,
                      !.status = status,
                      !.pendingState = null,
                      !.pendingMessage = ""]]
    ELSE T

dbUpdatePendingState(T, id, pendingState, pendingMessage, t) ==
    IF id \in DOMAIN T
    THEN [T EXCEPT ![id] =
            [@ EXCEPT !.pendingState = pendingState,
                      !.pendingMessage = pendingMessage,
                      !.lastActivity = t]]
    ELSE T

\* db.endSession sets status, ended_at and the pending columns
dbEndSession(T, id) ==
    IF id \in DOMAIN T
    THEN [T EXCEPT ![id] =
            [@ EXCEPT !.status = "ended",
                      !.pendingState = null,
                      !.pendingMessage = ""]]
    ELSE T

\* db.getAllSessions with rowToSession
dbGetAllSessions(T) == T

Wrote(op, id, T) ==
    [op |-> op, id |-> id, processCountPerCwd |-> NoProcesses, table |-> T]

DurableCreateSession(id, projectPath, transcriptPath) ==
    /\ sessions' = createSession(sessions, id, projectPath, transcriptPath, now)
    /\ order' = OrderSet(order, sessions, id)
    /\ lastOp' = Wrote("createSession", id,
                       dbUpsertSession(lastOp.table, id,
                                       NewSession(projectPath, transcriptPath, now)))
    /\ UNCHANGED <<now, rawLast>>

DurableUpdateActivity(id, toolName, toolInput) ==
    /\ hasSession(sessions, id)
    /\ sessions' = updateActivity(sessions, id, toolName, toolInput, now)
    /\ lastOp' = Wrote("updateActivity", id,
                       dbUpdateSessionActivity(lastOp.table, id, sessions'[id].lastActivity,
                                               toolName, toolInput, sessions'[id].status))
    /\ UNCHANGED <<order, now, rawLast>>

DurableSetPendingState(id, pendingState, pendingMessage) ==
    /\ hasSession(sessions, id)
    /\ sessions' = setPendingState(sessions, id, pendingState, pendingMessage, now)
    /\ lastOp' = Wrote("setPendingState", id,
                       dbUpdatePendingState(lastOp.table, id, pendingState, pendingMessage, now))
    /\ UNCHANGED <<order, now, rawLast>>

DurableEndSession(id) ==
    /\ hasSession(sessions, id)
    /\ sessions' = endSession(sessions, id, now)
    /\ lastOp' = Wrote("endSession", id, dbEndSession(lastOp.table, id))
    /\ UNCHANGED <<order, now, rawLast>>

DurableImportSession(id, session) ==
    /\ ~hasSession(sessions, id)
    /\ sessions' = importSession(sessions, id, session)
    /\ order' = OrderSet(order, sessions, id)
    /\ lastOp' = Wrote("importSession", id, dbUpsertSession(lastOp.table, id, session))
    /\ UNCHANGED <<now, rawLast>>

DurableTick ==
    /\ \E t \in TimePoints : t > now /\ now' = t
    /\ lastOp' = Wrote("tick", Missing, lastOp.table)
    /\ UNCHANGED <<sessions, order, rawLast>>

\* The server stops and starts again: ensureInitialized fills a new Map
\* from db.getAllSessions
Restart ==
    /\ sessions' = dbGetAllSessions(lastOp.table)
    /\ order' \in LoadOrders(sessions')
    /\ lastOp' = Wrote("restart", Missing, lastOp.table)
    /\ UNCHANGED <<now, rawLast>>

InitDurable ==
    /\ sessions = << >>
    /\ order = << >>
    /\ now = 0
    /\ rawLast = [i \in Ids |-> << >>]
    /\ lastOp = Wrote("init", Missing, << >>)

NextDurable ==
    \/ \E id \in Ids, path \in Paths, tp \in TranscriptInputs :
          DurableCreateSession(id, path, tp)
    \/ \E id \in Ids, tool \in StoreTools : DurableUpdateActivity(id, tool, "f")
    \/ \E id \in Ids, kind \in StorePendingKinds, message \in Messages :
          DurableSetPendingState(id, kind, message)
    \/ \E id \in Ids : DurableEndSession(id)
    \/ \E id \in Ids, session \in ImportedSessions : DurableImportSession(id, session)
    \/ DurableTick
    \/ Restart

DurableSpec == InitDurable /\ [][NextDurable]_vars

----------------------------------------------------------------------------
(* The event loop: one callback at a time.  scan() is one callback of the  *)
(* interval timer or of POST /scan and has no await in it, so its          *)
(* statements run one after the other, seen here statement by statement.   *)

\* The statements of scan() that have run in the pass in progress
ScanPhases == {"scan:refreshed", "scan:cleaned", "scan:gathered"}

\* The loop takes the next callback when the one it was running has returned
Idle_Always == TRUE

Idle == lastOp.op \notin ScanPhases

InScan(phase, pc, found, raw) ==
    [op |-> phase, id |-> Missing, processCountPerCwd |-> pc,
     found |-> found, raw |-> raw]

\* scan() is called: refreshRunningProcesses
StartScan(pc) ==
    /\ Idle
    /\ lastOp' = InScan("scan:refreshed", pc, << >>, << >>)
    /\ UNCHANGED <<sessions, order, now, rawLast>>

\* cleanupDeadSessions
CleanupStep ==
    /\ lastOp.op = "scan:refreshed"
    /\ sessions' = cleanupDeadSessions(sessions, order, lastOp.processCountPerCwd, now)
    /\ lastOp' = [lastOp EXCEPT !.op = "scan:cleaned"]
    /\ UNCHANGED <<order, now, rawLast>>

\* getProjectDirs and scanProjectDir for every directory
GatherStep(index) ==
    /\ lastOp.op = "scan:cleaned"
    /\ \E raw \in LastEvents(rawLast) :
          lastOp' = InScan("scan:gathered", lastOp.processCountPerCwd,
                           scanProjectDir(sessions, index, lastOp.processCountPerCwd), raw)
    /\ UNCHANGED <<sessions, order, now, rawLast>>

\* store.importSession for every session found
ImportStep ==
    /\ lastOp.op = "scan:gathered"
    /\ sessions' = ImportAll(sessions, lastOp.found, lastOp.raw, now)
    /\ order' = ImportOrder(order, sessions, lastOp.found)
    /\ lastOp' = [Did("scan", Missing) EXCEPT !.processCountPerCwd = lastOp.processCountPerCwd]
    /\ UNCHANGED <<now, rawLast>>

EventCallback ==
    \/ \E id \in EventIds, cwd \in EventCwds, tp \in TranscriptInputs :
          EventSessionStart(id, cwd, tp)
    \/ \E id \in EventIds, cwd \in EventCwds, tp \in TranscriptInputs, call \in ToolCalls :
          EventTool(id, cwd, tp, call)
    \/ \E id \in EventIds : EventSessionEnd(id)
    \/ \E id \in EventIds, cwd \in EventCwds, tp \in TranscriptInputs,
          ntype \in NotificationTypes, message \in Messages :
          EventNotification(id, cwd, tp, ntype, message)

NextLoop ==
    \/ Idle /\ EventCallback
    \/ Idle /\ Tick
    \/ \E pc \in ProcessCounts : StartScan(pc)
    \/ CleanupStep
    \/ \E index \in Indexes : GatherStep(index)
    \/ ImportStep

LoopSpec == Init /\ [][NextLoop]_vars

----------------------------------------------------------------------------
(* A pass over several project directories and processes, some of which    *)
(* cannot be inspected.                                                    *)

MaxListed == 2          \* processes that ps lists in one pass

\* A process ps lists: lsof and ps -o either answer for it or throw
ListedProcesses == [cwd : Paths, inspectable : BOOLEAN]

ProcessLists == UNION { [1..n -> ListedProcesses] : n \in 0..MaxListed }

\* getRunningClaudeProcesses: the loop over the pids skips a process whose
\* inspection throws and goes on with the next
getRunningClaudeProcesses(listed) == SelectSeq(listed, LAMBDA proc : proc.inspectable)

countProcessesPerCwd(processes) ==
    [p \in Paths |-> Cardinality({i \in 1..Len(processes) : processes[i].cwd = p})]

\* A project directory: its sessions-index.json is read, is missing or
\* unparsable (readSessionIndex returns null), or has entries that make
\* scanProjectDir throw
DirReads == {"ok", "null", "throws"}

ProjectDir(id, path) ==
    [read : DirReads,
     entries : {<< >>} \cup {<<[sessionId |-> id, projectPath |-> path,
                                created |-> 0, modified |-> m]>> : m \in ModTimes}]

\* The directories under ~/.claude/projects, in readdir order
ProjectDirs == {<<a, b>> : a \in ProjectDir("s1", "/a"), b \in ProjectDir("s2", "/b")}

\* The loop of scan() over the directories that gives up at the first
\* directory that cannot be read
RECURSIVE scanDirs_AbortsOnFailure(_, _, _)
scanDirs_AbortsOnFailure(S, dirs, pc) ==
    IF dirs = << >> \/ Head(dirs).read # "ok" THEN << >>
    ELSE scanProjectDir(S, Head(dirs).entries, pc)
            \o scanDirs_AbortsOnFailure(S, Tail(dirs), pc)

\* The loop of scan() over the directories: try { scanProjectDir } catch
RECURSIVE scanDirs(_, _, _)
scanDirs(S, dirs, pc) ==
    IF dirs = << >> THEN << >>
    ELSE (IF Head(dirs).read = "ok"
          THEN scanProjectDir(S, Head(dirs).entries, pc)
          ELSE << >>)
            \o scanDirs(S, Tail(dirs), pc)

InspectingScan(listed, dirs) ==
    /\ lastOp.op = "start"
    /\ LET pc == countProcessesPerCwd(getRunningClaudeProcesses(listed))
           cleaned == cleanupDeadSessions(sessions, order, pc, now)
           found == scanDirs(cleaned, dirs, pc)
       IN  /\ \E raw \in LastEvents(rawLast) : sessions' = ImportAll(cleaned, found, raw, now)
           /\ order' = ImportOrder(order, cleaned, found)
           /\ lastOp' = [op |-> "scan", id |-> Missing, processCountPerCwd |-> pc,
                         listed |-> listed, dirs |-> dirs, returned |-> Len(found)]
    /\ UNCHANGED <<now, rawLast>>

InitInspect ==
    /\ sessions = << >>
    /\ order = << >>
    /\ now = IDLE_THRESHOLD
    /\ rawLast = [i \in Ids |-> << >>]
    /\ lastOp = Did("start", Missing)

NextInspect == \E listed \in ProcessLists, dirs \in ProjectDirs : InspectingScan(listed, dirs)

InspectSpec == InitInspect /\ [][NextInspect]_vars

----------------------------------------------------------------------------
(* The clock in milliseconds: Date.now() advances one millisecond at a     *)
(* time or by a longer wait, and a session is created, re-stamped or ended *)
(* in between.  lastOp.ms counts the single-millisecond steps taken.        *)

MaxMsSteps == 4         \* single-millisecond steps in one run

\* Longer waits: to just short of each threshold
Waits == {ACTIVE_THRESHOLD - 2, IDLE_THRESHOLD - ACTIVE_THRESHOLD - 2}
MaxClock == IDLE_THRESHOLD + ACTIVE_THRESHOLD

Clocked(op, id, ms) ==
    [op |-> op, id |-> id, processCountPerCwd |-> NoProcesses, ms |-> ms]

ClockMs ==
    /\ lastOp.ms < MaxMsSteps
    /\ now + 1 <= MaxClock
    /\ now' = now + 1
    /\ lastOp' = Clocked("ms", Missing, lastOp.ms + 1)
    /\ UNCHANGED <<sessions, order, rawLast>>

ClockWait(d) ==
    /\ now + d <= MaxClock
    /\ now' = now + d
    /\ lastOp' = Clocked("wait", Missing, lastOp.ms)
    /\ UNCHANGED <<sessions, order, rawLast>>

ClockCreateSession(id) ==
    /\ ~hasSession(sessions, id)
    /\ sessions' = createSession(sessions, id, "/a", "t.jsonl", now)
    /\ order' = OrderSet(order, sessions, id)
    /\ lastOp' = Clocked("createSession", id, lastOp.ms)
    /\ UNCHANGED <<now, rawLast>>

ClockUpdateActivity(id) ==
    /\ hasSession(sessions, id)
    /\ sessions' = updateActivity(sessions, id, "Read", "f", now)
    /\ lastOp' = Clocked("updateActivity", id, lastOp.ms)
    /\ UNCHANGED <<order, now, rawLast>>

ClockEndSession(id) ==
    /\ hasSession(sessions, id)
    /\ sessions' = endSession(sessions, id, now)
    /\ lastOp' = Clocked("endSession", id, lastOp.ms)
    /\ UNCHANGED <<order, now, rawLast>>

InitClock ==
    /\ sessions = << >>
    /\ order = << >>
    /\ now = 0
    /\ rawLast = [i \in Ids |-> << >>]
    /\ lastOp = Clocked("init", Missing, 0)

NextClock ==
    \/ ClockMs
    \/ \E d \in Waits : ClockWait(d)
    \/ \E id \in EventIds : ClockCreateSession(id)
    \/ \E id \in EventIds : ClockUpdateActivity(id)
    \/ \E id \in EventIds : ClockEndSession(id)

ClockSpec == InitClock /\ [][NextClock]_vars

----------------------------------------------------------------------------
(* The permission_requests table next to the registry: the store's calls   *)
(* with the rows db.logPermissionRequest inserts and                       *)
(* db.resolvePermissionRequest updates. lastOp.requests is the table in    *)
(* insertion order.                                                        *)

MaxRequests == 2        \* rows of permission_requests in one run
PermissionResolutions == {"approved", "denied", "timeout"}
RequestKinds == {"permission_prompt", "idle_prompt"}

PermissionRequest(id, t) ==
    [sessionId |-> id, requestedAt |-> t, resolution |-> null]

logPermissionRequest(R, id, t) == Append(R, PermissionRequest(id, t))

\* WHERE session_id = $sessionId AND resolution IS NULL
Unresolved(R, id) ==
    {i \in DOMAIN R : R[i].sessionId = id /\ R[i].resolution = null}

\* ORDER BY requested_at DESC LIMIT 1: a row with the latest stamp; stamps
\* have millisecond resolution and nothing else orders the rows
MostRecentUnresolved(R, id) ==
    {i \in Unresolved(R, id) :
        \A j \in Unresolved(R, id) : R[j].requestedAt <= R[i].requestedAt}

\* resolvePermissionRequest that takes the oldest open row
resolvePermissionRequest_Oldest(R, id, resolution) ==
    IF Unresolved(R, id) = {} THEN {R}
    ELSE { [R EXCEPT ![i].resolution = resolution] :
             i \in {k \in Unresolved(R, id) :
                      \A j \in Unresolved(R, id) : R[k].requestedAt <= R[j].requestedAt} }

\* The tables resolvePermissionRequest can leave
resolvePermissionRequest(R, id, resolution) ==
    IF Unresolved(R, id) = {} THEN {R}
    ELSE { [R EXCEPT ![i].resolution = resolution] : i \in MostRecentUnresolved(R, id) }

\* updateActivity and endSession: resolve only when the session's pending
\* state is permission_prompt
ResolveIfPermission(S, R, id, resolution) ==
    IF hasSession(S, id) /\ S[id].pendingState = "permission_prompt"
    THEN resolvePermissionRequest(R, id, resolution)
    ELSE {R}

Requested(op, id, R) ==
    [op |-> op, id |-> id, processCountPerCwd |-> NoProcesses, requests |-> R]

\* A session-start event; only the ids of EventIds start a second time
PermCreateSession(id) ==
    /\ hasSession(sessions, id) => id \in EventIds
    /\ sessions' = createSession(sessions, id, "/a", "t.jsonl", now)
    /\ order' = OrderSet(order, sessions, id)
    /\ lastOp' = Requested("createSession", id, lastOp.requests)
    /\ UNCHANGED <<now, rawLast>>

PermUpdateActivity(id) ==
    /\ sessions' = updateActivity(sessions, id, "Read", "f", now)
    /\ \E R \in ResolveIfPermission(sessions, lastOp.requests, id, "approved") :
          lastOp' = Requested("updateActivity", id, R)
    /\ UNCHANGED <<order, now, rawLast>>

PermSetPendingState(id, pendingState) ==
    /\ pendingState = "permission_prompt" /\ hasSession(sessions, id)
          => Len(lastOp.requests) < MaxRequests
    /\ sessions' = setPendingState(sessions, id, pendingState, "m1", now)
    /\ lastOp' = Requested("setPendingState", id,
                           IF hasSession(sessions, id) /\ pendingState = "permission_prompt"
                           THEN logPermissionRequest(lastOp.requests, id, now)
                           ELSE lastOp.requests)
    /\ UNCHANGED <<order, now, rawLast>>

PermEndSession(id) ==
    /\ sessions' = endSession(sessions, id, now)
    /\ \E R \in ResolveIfPermission(sessions, lastOp.requests, id, "timeout") :
          lastOp' = Requested("endSession", id, R)
    /\ UNCHANGED <<order, now, rawLast>>

PermTick ==
    /\ now = 0
    /\ now' = ACTIVE_THRESHOLD
    /\ lastOp' = Requested("tick", Missing, lastOp.requests)
    /\ UNCHANGED <<sessions, order, rawLast>>

InitPermission ==
    /\ sessions = << >>
    /\ order = << >>
    /\ now = 0
    /\ rawLast = [i \in Ids |-> << >>]
    /\ lastOp = Requested("init", Missing, << >>)

NextPermission ==
    \/ \E id \in Ids : PermCreateSession(id)
    \/ \E id \in Ids : PermUpdateActivity(id)
    \/ \E id \in Ids, kind \in RequestKinds : PermSetPendingState(id, kind)
    \/ \E id \in Ids : PermEndSession(id)
    \/ PermTick

PermissionSpec == InitPermission /\ [][NextPermission]_vars

----------------------------------------------------------------------------
(* startPeriodicScan and stopPeriodicScan with the timers of setInterval:  *)
(* lastOp.scanInterval is the scanner's field (null or the timer's id),    *)
(* lastOp.timers the intervals that are armed, each with its next due time.*)

SCAN_INTERVAL == 60000
NoInterval == 0          \* scanInterval = null; timers are numbered from 1
MaxTimers == 2          \* setInterval calls in one run
MaxIntervals == 2       \* the clock runs to this many intervals

PeriodicIndexes == {<< >>} \cup {<<e>> : e \in {x \in IndexEntries : x.modified = 0}}

Timed(op, pc, scanInterval, timers, created, passes) ==
    [op |-> op, id |-> Missing, processCountPerCwd |-> pc,
     scanInterval |-> scanInterval, timers |-> timers, created |-> created,
     passes |-> passes]

\* if (this.scanInterval) that never sees a running timer
Running_Never(scanInterval) == FALSE

\* if (this.scanInterval)
Running(scanInterval) == scanInterval # NoInterval

\* One pass of scan() as startPeriodicScan and the interval callback run it
PeriodicPass(pc, index) ==
    \E raw \in LastEvents(rawLast) : ScanEffect(pc, index, raw)

StartPeriodicScan(pc, index) ==
    IF Running(lastOp.scanInterval)
    THEN /\ lastOp' = [lastOp EXCEPT !.op = "start:running", !.passes = 0]
         /\ UNCHANGED <<sessions, order, now, rawLast>>
    ELSE /\ lastOp.created < MaxTimers
         /\ PeriodicPass(pc, index)
         /\ lastOp' = Timed("start", pc, lastOp.created + 1,
                            lastOp.timers \cup
                               {[id |-> lastOp.created + 1, due |-> now + SCAN_INTERVAL]},
                            lastOp.created + 1, 1)

\* The callback of setInterval, when the timer is due
IntervalFires(pc, index) ==
    \E tm \in lastOp.timers :
        /\ tm.due = now
        /\ PeriodicPass(pc, index)
        /\ lastOp' = Timed("interval", pc, lastOp.scanInterval,
                           (lastOp.timers \ {tm}) \cup
                              {[id |-> tm.id, due |-> now + SCAN_INTERVAL]},
                           lastOp.created, 1)

StopPeriodicScan ==
    /\ IF lastOp.scanInterval # NoInterval
       THEN lastOp' = [lastOp EXCEPT !.op = "stop", !.passes = 0,
                                     !.scanInterval = NoInterval,
                                     !.timers = {tm \in @ : tm.id # lastOp.scanInterval}]
       ELSE lastOp' = [lastOp EXCEPT !.op = "stop:idle", !.passes = 0]
    /\ UNCHANGED <<sessions, order, now, rawLast>>

\* Half an interval passes; a timer that is due fires first
PeriodicClock ==
    /\ now + SCAN_INTERVAL \div 2 <= MaxIntervals * SCAN_INTERVAL
    /\ \A tm \in lastOp.timers : tm.due > now
    /\ now' = now + SCAN_INTERVAL \div 2
    /\ lastOp' = [lastOp EXCEPT !.op = "clock", !.passes = 0]
    /\ UNCHANGED <<sessions, order, rawLast>>

InitPeriodic ==
    /\ sessions = << >>
    /\ order = << >>
    /\ now = 0
    /\ rawLast = [i \in Ids |-> << >>]
    /\ lastOp = Timed("init", NoProcesses, NoInterval, {}, 0, 0)

NextPeriodic ==
    \/ \E pc \in ProcessCounts, index \in PeriodicIndexes : StartPeriodicScan(pc, index)
    \/ \E pc \in ProcessCounts, index \in PeriodicIndexes : IntervalFires(pc, index)
    \/ StopPeriodicScan
    \/ PeriodicClock

PeriodicSpec == InitPeriodic /\ [][NextPeriodic]_vars

----------------------------------------------------------------------------
(* The broadcaster with its clients and one dashboard, whose              *)
(* OverwatchWebSocket opens one socket after another: lastOp.clients is    *)
(* Broadcaster.clients, lastOp.open the sockets whose readyState is OPEN,  *)
(* lastOp.closed those that closed, lastOp.inbox the messages sent to the  *)
(* dashboard and not yet handled, lastOp.view the dashboard's sessions Map.*)

MaxInbox == 1           \* messages in flight to the dashboard
Sockets == {"w1", "w2"}

Connected(op, id, pc, clients, open, closed, inbox, view) ==
    [op |-> op, id |-> id, processCountPerCwd |-> pc, clients |-> clients,
     open |-> open, closed |-> closed, inbox |-> inbox, view |-> view]

\* getSessionsFn: store.getAllSessions().map(toResponse), in the Map's order
SessionsMessage(S, o, t) ==
    [type |-> "sessions",
     data |-> [i \in 1..Len(o) |-> toResponse(o[i], getAllSessions(S, t)[o[i]], t)]]

\* broadcast: the messages go out on every socket of the set that is open
Broadcast(clients, open, inbox, messages) ==
    IF clients \cap open # {} THEN inbox \o messages ELSE inbox

\* send: one socket, when it is open
Send(open, inbox, w, message) ==
    IF w \in open THEN Append(inbox, message) ELSE inbox

\* The messages a call sends fit in what is in flight (nothing is sent when
\* no socket of the set is open)
Room(n) ==
    \/ lastOp.clients \cap lastOp.open = {}
    \/ Len(lastOp.inbox) + n <= MaxInbox

\* Dashboard.handleMessage on the dashboard's sessions Map
handleMessage(view, message) ==
    IF message.type = "sessions"
    THEN [id \in {message.data[i].id : i \in DOMAIN message.data} |->
            LET i == CHOOSE k \in DOMAIN message.data : message.data[k].id = id
            IN  message.data[i]]
    ELSE IF message.type = "session-update"
    THEN MapSet(view, message.data.id, message.data)
    ELSE IF message.type = "session-ended" /\ message.id \in DOMAIN view
    THEN [view EXCEPT ![message.id].status = "ended"]
    ELSE view

\* GET /ws: broadcaster.addClient(socket), for a socket not seen before and
\* with the dashboard's earlier socket closed
WsConnect(w) ==
    /\ w \notin lastOp.closed
    /\ lastOp.open = {}
    /\ Len(lastOp.inbox) < MaxInbox
    /\ lastOp' = [lastOp EXCEPT !.op = "connect", !.id = w,
                                !.clients = @ \cup {w},
                                !.open = @ \cup {w},
                                !.inbox = Send(lastOp.open \cup {w}, lastOp.inbox, w,
                                               SessionsMessage(sessions, order, now))]
    /\ sessions' = getAllSessions(sessions, now)
    /\ UNCHANGED <<order, now, rawLast>>

\* The socket closes (or fails) and its close (error) handler runs
WsClose(w, event) ==
    /\ w \in lastOp.open
    /\ lastOp' = [lastOp EXCEPT !.op = event, !.id = w,
                                !.clients = @ \ {w},
                                !.open = @ \ {w},
                                !.closed = @ \cup {w}]
    /\ UNCHANGED <<sessions, order, now, rawLast>>

\* The dashboard's onMessage callback for the next message
ClientReceive ==
    /\ lastOp.inbox # << >>
    /\ lastOp' = [lastOp EXCEPT !.op = "receive", !.id = Missing,
                                !.inbox = Tail(@),
                                !.view = handleMessage(@, Head(lastOp.inbox))]
    /\ UNCHANGED <<sessions, order, now, rawLast>>

\* A store call with its broadcast
ServerCall(call, S2, o2) ==
    /\ Room(Len(call.sent))
    /\ sessions' = S2
    /\ order' = o2
    /\ lastOp' = [lastOp EXCEPT !.op = call.call, !.id = call.id,
                                !.inbox = Broadcast(lastOp.clients, lastOp.open,
                                                    lastOp.inbox, call.sent)]
    /\ UNCHANGED <<now, rawLast>>

ServerCreateSession(id) ==
    /\ ~hasSession(sessions, id)
    /\ ServerCall(createSessionCall(sessions, id, "/a", "t.jsonl", now),
                  createSession(sessions, id, "/a", "t.jsonl", now),
                  OrderSet(order, sessions, id))

ServerSetPendingState(id) ==
    /\ hasSession(sessions, id)
    /\ ServerCall(setPendingStateCall(sessions, id, "permission_prompt", "m1", now),
                  setPendingState(sessions, id, "permission_prompt", "m1", now), order)

ServerEndSession(id) ==
    /\ hasSession(sessions, id)
    /\ ServerCall(endSessionCall(sessions, id, now), endSession(sessions, id, now), order)

\* POST /scan or the interval callback: a pass, with the broadcasts of the
\* store calls it makes
ServerScan(pc, index) ==
    \E raw \in LastEvents(rawLast) :
        LET calls == scanCalls(sessions, order, pc, index, raw, now)
            sent == Concat([i \in 1..Len(calls) |-> calls[i].sent])
        IN  /\ Room(Len(sent))
            /\ ScanEffect(pc, index, raw)
            /\ lastOp' = [lastOp EXCEPT !.op = "scan", !.id = Missing,
                                        !.processCountPerCwd = pc,
                                        !.inbox = Broadcast(lastOp.clients, lastOp.open,
                                                            lastOp.inbox, sent)]

InitClient ==
    /\ sessions = << >>
    /\ order = << >>
    /\ now = 0
    /\ rawLast = [i \in Ids |-> << >>]
    /\ lastOp = Connected("init", Missing, NoProcesses, {}, {}, {}, << >>, << >>)

NextClient ==
    \/ \E w \in Sockets : WsConnect(w)
    \/ \E w \in Sockets, event \in {"close", "error"} : WsClose(w, event)
    \/ ClientReceive
    \/ \E id \in EventIds : ServerCreateSession(id)
    \/ \E id \in EventIds : ServerSetPendingState(id)
    \/ \E id \in EventIds : ServerEndSession(id)
    \/ \E pc \in ProcessCounts, index \in PeriodicIndexes : ServerScan(pc, index)

ClientSpec == InitClient /\ [][NextClient]_vars

----------------------------------------------------------------------------
(* The dashboard's OverwatchWebSocket: lastOp.ws is the field ws (NoSocket *)
(* for null, else the number of the socket), lastOp.readyState the state   *)
(* of every socket created so far, lastOp.shouldReconnect the flag and     *)
(* lastOp.reconnectTimer whether the timeout is pending.  The delay of the *)
(* timeout (reconnectAttempts, reconnectDelay) is left out.                *)

MaxSockets == 3         \* new WebSocket(...) calls in one run
NoSocket == 0           \* ws = null; sockets are numbered from 1

Socketed(op, ws, readyState, shouldReconnect, reconnectTimer) ==
    [op |-> op, id |-> Missing, processCountPerCwd |-> NoProcesses, ws |-> ws,
     readyState |-> readyState, shouldReconnect |-> shouldReconnect,
     reconnectTimer |-> reconnectTimer]

\* if (this.ws?.readyState === WebSocket.OPEN) return
AlreadyOpen(L) == L.ws # NoSocket /\ L.readyState[L.ws] = "open"

\* The body of connect() on the fields L, called as op
connect(L, op) ==
    IF AlreadyOpen(L)
    THEN [L EXCEPT !.op = op \o ":open"]
    ELSE [L EXCEPT !.op = op,
                   !.shouldReconnect = TRUE,
                   !.ws = Len(L.readyState) + 1,
                   !.readyState = Append(@, "connecting")]

\* The dashboard calls connect()
WsClientConnect ==
    /\ AlreadyOpen(lastOp) \/ Len(lastOp.readyState) < MaxSockets
    /\ lastOp' = connect(lastOp, "connect")
    /\ UNCHANGED <<sessions, order, now, rawLast>>

\* onopen of socket k
SocketOpens(k) ==
    /\ lastOp.readyState[k] = "connecting"
    /\ lastOp' = [lastOp EXCEPT !.op = "onopen", !.readyState[k] = "open"]
    /\ UNCHANGED <<sessions, order, now, rawLast>>

\* onclose of socket k, which ends in scheduleReconnect
SocketCloses(k) ==
    /\ lastOp.readyState[k] # "closed"
    /\ lastOp' = [lastOp EXCEPT !.op = "onclose", !.readyState[k] = "closed",
                                !.reconnectTimer = IF lastOp.shouldReconnect THEN TRUE ELSE @]
    /\ UNCHANGED <<sessions, order, now, rawLast>>

\* The timeout of scheduleReconnect fires and calls connect()
ReconnectTimerFires ==
    /\ lastOp.reconnectTimer
    /\ AlreadyOpen(lastOp) \/ Len(lastOp.readyState) < MaxSockets
    /\ lastOp' = [connect(lastOp, "reconnect") EXCEPT !.reconnectTimer = FALSE]
    /\ UNCHANGED <<sessions, order, now, rawLast>>

\* The dashboard calls disconnect()
WsClientDisconnect ==
    /\ lastOp' = [lastOp EXCEPT
                    !.op = "disconnect",
                    !.shouldReconnect = FALSE,
                    !.reconnectTimer = FALSE,
                    !.ws = NoSocket,
                    !.readyState = IF lastOp.ws # NoSocket /\ @[lastOp.ws] # "closed"
                                   THEN [@ EXCEPT ![lastOp.ws] = "closing"] ELSE @]
    /\ UNCHANGED <<sessions, order, now, rawLast>>

InitSocket ==
    /\ sessions = << >>
    /\ order = << >>
    /\ now = 0
    /\ rawLast = [i \in Ids |-> << >>]
    /\ lastOp = Socketed("init", NoSocket, << >>, TRUE, FALSE)

NextSocket ==
    \/ WsClientConnect
    \/ \E k \in 1..MaxSockets : k <= Len(lastOp.readyState) /\ SocketOpens(k)
    \/ \E k \in 1..MaxSockets : k <= Len(lastOp.readyState) /\ SocketCloses(k)
    \/ ReconnectTimerFires
    \/ WsClientDisconnect

SocketSpec == InitSocket /\ [][NextSocket]_vars

----------------------------------------------------------------------------
(* Properties *)

IsEnded(S, id) == S[id].status = "ended"

\* The step is the handling of an event of the given type for id
EventStep(type, id) == lastOp'.op = type /\ lastOp'.id = id

\* The step calls updateActivity, setPendingState or endSession on id and
\* nothing else: a tool, notification or session-end event for a known id
MutatingCallStep(id) ==
    /\ id \in DOMAIN sessions
    /\ lastOp'.op \in {"tool", "notification", "session-end"}
    /\ lastOp'.id = id

SamePending(id) ==
    /\ sessions'[id].pendingState = sessions[id].pendingState
    /\ sessions'[id].pendingMessage = sessions[id].pendingMessage

\* C1: a session-start event for an id already in the registry leaves the
\* registry's size and the record (startedAt, lastTool, lastToolInput,
\* pendingState, pendingMessage, status as read) unchanged.
C1_CreateIdempotent ==
    [][\A id \in DOMAIN sessions :
         EventStep("session-start", id) =>
            /\ DOMAIN sessions' = DOMAIN sessions
            /\ sessions'[id].startedAt = sessions[id].startedAt
            /\ sessions'[id].lastTool = sessions[id].lastTool
            /\ sessions'[id].lastToolInput = sessions[id].lastToolInput
            /\ SamePending(id)
            /\ calculateStatus(sessions'[id], now') = calculateStatus(sessions[id], now)]_vars

\* C2: no session is ended and pending at once.
C2_EndedNotPending ==
    \A id \in DOMAIN sessions :
        IsEnded(sessions, id) => sessions[id].pendingState = null

\* C3: once a session is ended, it is ended in every later state, whatever
\* event or reconcile pass follows.
C3_EndedIsTerminal ==
    [][\A id \in DOMAIN sessions :
         IsEnded(sessions, id) =>
            id \in DOMAIN sessions' /\ IsEnded(sessions', id)]_vars

\* C4: on an ended session, updateActivity, setPendingState and endSession
\* (a tool, notification or session-end event), a read and the passage of time
\* all leave the status that is read equal to ended.
C4_EndedStaysEndedUnderCalls ==
    [][\A id \in DOMAIN sessions :
         /\ IsEnded(sessions, id)
         /\ \/ MutatingCallStep(id)
            \/ lastOp'.op \in {"get", "list", "tick"}
         => /\ id \in DOMAIN sessions'
            /\ calculateStatus(sessions'[id], now') = "ended"
            /\ sessions'[id].status = "ended"]_vars

\* C4 witness: a tool event has just been handled for a session that is ended,
\* at a time at which the elapsed time alone would make it stale.
C4_Witness ==
    \E id \in DOMAIN sessions :
        /\ lastOp.op = "tool" /\ lastOp.id = id
        /\ IsEnded(sessions, id)
        /\ sessions[id].lastActivity = now
        /\ now >= IDLE_THRESHOLD

\* C5: updateActivity, setPendingState and endSession on an ended session
\* change no field of it.
C5_EndedIsFrozen ==
    [][\A id \in DOMAIN sessions :
         IsEnded(sessions, id) /\ MutatingCallStep(id) =>
            id \in DOMAIN sessions' /\ sessions'[id] = sessions[id]]_vars

\* C6: the status that is read is ended for an ended session and otherwise
\* active below 30000 ms since the last activity, idle from 30000 ms and below
\* 300000 ms, stale from 300000 ms; a read stores exactly that status.
StatusByElapsed(ended, elapsed) ==
    IF ended THEN "ended"
    ELSE IF elapsed < 30000 THEN "active"
    ELSE IF elapsed < 300000 THEN "idle"
    ELSE "stale"

C6_StatusIsFunctionOfElapsed ==
    \A id \in DOMAIN sessions :
        LET expected == StatusByElapsed(IsEnded(sessions, id),
                                        now - sessions[id].lastActivity)
        IN  /\ ResponseStatus(id) = expected
            /\ (lastOp.op = "list" \/ (lastOp.op = "get" /\ lastOp.id = id))
                  => sessions[id].status = expected

\* C6 witness: a session read exactly 30000 ms after its last activity
C6_Witness ==
    \E id \in DOMAIN sessions :
        /\ lastOp.op = "get" /\ lastOp.id = id
        /\ now - sessions[id].lastActivity = ACTIVE_THRESHOLD
        /\ sessions[id].status = "idle"

\* C7: the passage of time and reads leave pendingState and pendingMessage of
\* every session as they are, also when the session is idle or stale.
C7_PendingOutlivesTime ==
    [][\A id \in DOMAIN sessions :
         lastOp'.op \in {"tick", "get", "list"} =>
            id \in DOMAIN sessions' /\ SamePending(id)]_vars

\* C7 witness: a session read as stale that is still pending.
C7_Witness ==
    \E id \in DOMAIN sessions :
        /\ lastOp.op = "get" /\ lastOp.id = id
        /\ sessions[id].status = "stale"
        /\ sessions[id].pendingState \in PendingKinds
        /\ sessions[id].pendingMessage = "m1"

\* C8: when the pending state or message of a session in the registry changes,
\* the step is an updateActivity, a setPendingState or an endSession of that
\* id: a tool, notification or session-end event, or a reconcile pass that
\* ends the session.
C8_PendingChangesOnlyByCalls ==
    [][\A id \in DOMAIN sessions :
         (id \in DOMAIN sessions' /\ ~SamePending(id)) =>
            \/ MutatingCallStep(id)
            \/ /\ lastOp'.op = "scan"
               /\ ~IsEnded(sessions, id)
               /\ IsEnded(sessions', id)]_vars

\* C9: a tool event for a known session that is not ended sets lastActivity
\* to now, lastTool and lastToolInput to the event's, clears the pending state
\* and message, and keeps startedAt, projectPath and transcriptPath.
C9_RecordActivity ==
    [][\A id \in DOMAIN sessions, call \in ToolCalls :
         /\ ~IsEnded(sessions, id)
         /\ EventStep("tool", id)
         /\ \E cwd \in EventCwds, tp \in TranscriptInputs : EventTool(id, cwd, tp, call)
         => /\ sessions'[id].lastActivity = now
            /\ sessions'[id].lastTool = call.tool_name
            /\ sessions'[id].lastToolInput = call.tool_input
            /\ sessions'[id].pendingState = null
            /\ sessions'[id].pendingMessage = ""
            /\ sessions'[id].startedAt = sessions[id].startedAt
            /\ sessions'[id].projectPath = sessions[id].projectPath
            /\ sessions'[id].transcriptPath = sessions[id].transcriptPath
            /\ ~IsEnded(sessions', id)]_vars

\* C9 witness: a tool event has been handled for a session created earlier
\* and not ended.
C9_Witness ==
    \E id \in DOMAIN sessions :
        /\ lastOp.op = "tool" /\ lastOp.id = id
        /\ ~IsEnded(sessions, id)
        /\ sessions[id].startedAt < sessions[id].lastActivity
        /\ sessions[id].lastTool = "Bash"
        /\ sessions[id].pendingState = null

\* C10: a reconcile pass whose snapshot has no process for a path ends every
\* session of that path that was not ended.
C10_NoProcessEndsAll ==
    [][lastOp'.op = "scan" =>
         \A id \in DOMAIN sessions :
            /\ ~IsEnded(sessions, id)
            /\ lastOp'.processCountPerCwd[sessions[id].projectPath] = 0
            => id \in DOMAIN sessions' /\ IsEnded(sessions', id)]_vars

\* C10 witness: after a pass with no process for a path, two sessions of that
\* path are ended as of the time of the pass.
C10_Witness ==
    /\ lastOp.op = "scan"
    /\ \E a, b \in DOMAIN sessions :
         /\ a # b
         /\ sessions[a].projectPath = sessions[b].projectPath
         /\ lastOp.processCountPerCwd[sessions[a].projectPath] = 0
         /\ IsEnded(sessions, a) /\ IsEnded(sessions, b)
         /\ sessions[a].lastActivity = now /\ sessions[b].lastActivity = now
         /\ now > 0

----------------------------------------------------------------------------
(* Properties of a reconciliation pass *)

\* The entries of the index the pass read that carry the path
Candidates(index, p) ==
    { index[i] : i \in { j \in 1..Len(index) : index[j].projectPath = p } }

\* How many other candidates of e's path were modified after e, and how many
\* no earlier than e
Newer(index, e) ==
    Cardinality({ c \in Candidates(index, e.projectPath) :
                    c # e /\ c.modified > e.modified })

NotOlder(index, e) ==
    Cardinality({ c \in Candidates(index, e.projectPath) :
                    c # e /\ c.modified >= e.modified })

\* C11: after a pass, for a path with N > 0 processes and more than N
\* candidates, each of the N candidates modified last is in the registry and
\* not ended (unless it was ended before the pass, which is final), and each
\* older candidate is not imported and, if it was tracked and not ended
\* before the pass, is ended.
C11_LatestCandidatesLive ==
    [][lastOp'.op = "scan" =>
         \A p \in Paths :
            LET N == lastOp'.processCountPerCwd[p]
                cands == Candidates(lastOp'.index, p)
            IN  (N > 0 /\ Cardinality(cands) > N) =>
                  \A e \in cands :
                     /\ (/\ NotOlder(lastOp'.index, e) < N
                         /\ ~(e.sessionId \in DOMAIN sessions
                               /\ IsEnded(sessions, e.sessionId))) =>
                           /\ e.sessionId \in DOMAIN sessions'
                           /\ ~IsEnded(sessions', e.sessionId)
                     /\ Newer(lastOp'.index, e) >= N =>
                           /\ e.sessionId \notin DOMAIN sessions =>
                                 e.sessionId \notin DOMAIN sessions'
                           /\ (e.sessionId \in DOMAIN sessions
                                 /\ ~IsEnded(sessions, e.sessionId)) =>
                                 IsEnded(sessions', e.sessionId)]_vars

\* The other sessions of id's path, not ended, whose last activity is no
\* earlier than id's
NoLessRecent(S, id) ==
    { j \in DOMAIN S : /\ j # id
                       /\ S[j].status # "ended"
                       /\ S[j].projectPath = S[id].projectPath
                       /\ S[j].lastActivity >= S[id].lastActivity }

\* The record as a reader sees it at time t
AsRead(session, t) == [session EXCEPT !.status = calculateStatus(session, t)]

\* C12: in a pass with N > 0 processes for a path, a tracked session of the
\* path that is not ended and has fewer than N others as recent as itself is
\* not ended and keeps every field, and a session the pass ends has at least
\* N others as recent as itself.
C12_PruneSparesQuota ==
    [][lastOp'.op = "scan" =>
         \A id \in DOMAIN sessions :
            LET N == getProcessCount(lastOp'.processCountPerCwd, sessions[id].projectPath)
                ahead == Cardinality(NoLessRecent(sessions, id))
            IN  (N > 0 /\ ~IsEnded(sessions, id)) =>
                  /\ ahead < N =>
                        /\ id \in DOMAIN sessions'
                        /\ AsRead(sessions'[id], now') = AsRead(sessions[id], now)
                  /\ IsEnded(sessions', id) => ahead >= N]_vars

\* C12 witness: after a pass with one process for a path, of two tracked
\* sessions of the path the more recent is untouched and the other was ended
\* by the pass.
C12_Witness ==
    /\ lastOp.op = "scan"
    /\ \E a, b \in DOMAIN sessions \cap TrackedIds :
         /\ a # b
         /\ sessions[a].projectPath = sessions[b].projectPath
         /\ lastOp.processCountPerCwd[sessions[a].projectPath] = 1
         /\ ~IsEnded(sessions, a) /\ sessions[a].lastActivity = ACTIVE_THRESHOLD
         /\ IsEnded(sessions, b) /\ sessions[b].lastActivity = now

\* The paths a pass observed: those with a process in its snapshot and those
\* of the entries of the index it read
ObservedPaths(pc, index) ==
    {p \in DOMAIN pc : pc[p] > 0} \cup {index[i].projectPath : i \in 1..Len(index)}

\* C13: a pass ends no session and creates no session whose path is neither
\* in its process snapshot nor in the index it read.
C13_UnobservedPathsUntouched ==
    [][lastOp'.op = "scan" =>
         LET observed == ObservedPaths(lastOp'.processCountPerCwd, lastOp'.index)
         IN  /\ \A id \in DOMAIN sessions :
                   sessions[id].projectPath \notin observed =>
                      /\ id \in DOMAIN sessions'
                      /\ IsEnded(sessions', id) = IsEnded(sessions, id)
             /\ \A id \in DOMAIN sessions' \ DOMAIN sessions :
                   sessions'[id].projectPath \in observed]_vars

\* The raw event logged last for an id, NoRawEvent when there is none
LastLogged(id) ==
    IF rawLast[id] = << >> THEN NoRawEvent ELSE rawLast[id][Len(rawLast[id])]

IsPendingNotification(row) ==
    row.event_type = "notification" /\ row.notification_type \in PendingKinds

\* C14: a session imported by a pass carries the kind and message of the raw
\* event logged last for its id when that event is a notification of a
\* recognized pending kind, and no pending state otherwise.
C14_ImportRestoresLastPending ==
    [][lastOp'.op = "scan" =>
         \A id \in DOMAIN sessions' \ DOMAIN sessions :
            IF IsPendingNotification(LastLogged(id))
            THEN /\ sessions'[id].pendingState = LastLogged(id).notification_type
                 /\ sessions'[id].pendingMessage = LastLogged(id).message
            ELSE sessions'[id].pendingState = null]_vars

\* C15: importSession on an id already in the registry, ended or not, returns
\* false, leaves the registry as it was and writes nothing to the sessions
\* table; on an absent id it inserts the given record, writes it, and
\* returns true.
C15_ImportNeverOverwrites ==
    [][lastOp'.op = "importSession" =>
         LET id == lastOp'.id
             call == lastOp'.calls[1]
         IN  IF id \in DOMAIN sessions
             THEN /\ call.returned = "false"
                  /\ sessions' = sessions
                  /\ call.db = << >>
             ELSE /\ call.returned = "true"
                  /\ DOMAIN sessions' = DOMAIN sessions \cup {id}
                  /\ sessions'[id] = lastOp'.session
                  /\ \A other \in DOMAIN sessions : sessions'[other] = sessions[other]
                  /\ call.db = <<"upsertSession">>]_vars

\* An import was refused for an ended session that differs from the record
\* offered, and the ended record is still there
C15_Witness ==
    /\ lastOp.op = "importSession"
    /\ lastOp.calls[1].returned = "false"
    /\ sessions[lastOp.id].status = "ended"
    /\ sessions[lastOp.id] # lastOp.session

\* C16: a pre-tool or post-tool event for an id not in the registry adds
\* exactly one record, for that id, whose projectPath is the event's cwd,
\* whose lastTool is the event's tool name and which has no pending state.
C16_ToolEventCreates ==
    [][\A id \in EventIds, cwd \in EventCwds, tp \in TranscriptInputs, call \in ToolCalls :
          (id \notin DOMAIN sessions /\ EventTool(id, cwd, tp, call)) =>
             /\ DOMAIN sessions' = DOMAIN sessions \cup {id}
             /\ order' = Append(order, id)
             /\ \A other \in DOMAIN sessions : sessions'[other] = sessions[other]
             /\ sessions'[id].projectPath = cwd
             /\ sessions'[id].lastTool = call.tool_name
             /\ sessions'[id].pendingState = null]_vars

\* The only session is one a tool event has just acted on, started at the
\* instant of its last activity and carrying the event's tool
C16_Witness ==
    /\ lastOp.op = "tool"
    /\ DOMAIN sessions = {lastOp.id}
    /\ sessions[lastOp.id].startedAt = now
    /\ now = ACTIVE_THRESHOLD
    /\ sessions[lastOp.id].lastTool = "Bash"
    /\ sessions[lastOp.id].projectPath \in EventCwds

C18_PendingNotification ==
    [][\A id \in EventIds, cwd \in EventCwds, tp \in TranscriptInputs,
          ntype \in NotificationTypes \cap PendingKinds, message \in Messages :
          EventNotification(id, cwd, tp, ntype, message) =>
             /\ id \in DOMAIN sessions'
             /\ sessions'[id].pendingState = ntype
             /\ sessions'[id].pendingMessage = message
             /\ IF id \in DOMAIN sessions
                THEN /\ sessions'[id].lastTool = sessions[id].lastTool
                     /\ sessions'[id].lastToolInput = sessions[id].lastToolInput
                ELSE /\ sessions'[id].lastTool = ""
                     /\ sessions'[id].lastToolInput = ""
                     /\ sessions'[id].projectPath = cwd]_vars

\* A session that ran Bash is now waiting at the idle prompt
C18_Witness ==
    \E id \in DOMAIN sessions :
        /\ lastOp.op = "notification" /\ lastOp.id = id
        /\ sessions[id].pendingState = "idle_prompt"
        /\ sessions[id].pendingMessage = "m1"
        /\ sessions[id].lastTool = "Bash"
        /\ sessions[id].lastToolInput = "ls"
        /\ sessions[id].lastActivity = now

\* C19: a notification event whose type is not a recognized pending kind
\* stamps lastActivity with the current time and leaves lastTool and
\* lastToolInput as they were.
C19_RegularNotification ==
    [][\A id \in EventIds, cwd \in EventCwds, tp \in TranscriptInputs,
          ntype \in NotificationTypes \ PendingKinds, message \in Messages :
          EventNotification(id, cwd, tp, ntype, message) =>
             /\ id \in DOMAIN sessions'
             /\ sessions'[id].lastActivity = now
             /\ IF id \in DOMAIN sessions
                THEN /\ sessions'[id].lastTool = sessions[id].lastTool
                     /\ sessions'[id].lastToolInput = sessions[id].lastToolInput
                ELSE /\ sessions'[id].lastTool = ""
                     /\ sessions'[id].lastToolInput = ""]_vars

\* A session that ran Bash earlier has just been confirmed by a regular
\* notification
C19_Witness ==
    \E id \in DOMAIN sessions :
        /\ lastOp.op = "notification" /\ lastOp.id = id
        /\ sessions[id].pendingState = null
        /\ sessions[id].lastTool = "Bash"
        /\ sessions[id].lastToolInput = "ls"
        /\ sessions[id].lastActivity = IDLE_THRESHOLD
        /\ sessions[id].startedAt = 0

SnapshotCalls == {"createSession", "updateActivity", "setPendingState"}

\* C20: a call of createSession, updateActivity or setPendingState that finds
\* or creates its session broadcasts exactly one session-update carrying the
\* session as it is after the call; a call of endSession that finds its
\* session broadcasts exactly one session-ended carrying only the id; a call
\* for an unknown id that returns undefined broadcasts nothing, writes
\* nothing and leaves the registry as it was.
C20_OneNotificationPerCall ==
    [][lastOp'.op \in SnapshotCalls \cup {"endSession"} =>
         LET id == lastOp'.id
             call == lastOp'.calls[1]
         IN  /\ Len(lastOp'.calls) = 1
             /\ IF lastOp'.op # "createSession" /\ id \notin DOMAIN sessions
                THEN /\ call.returned = "undefined"
                     /\ call.sent = << >>
                     /\ call.db = << >>
                     /\ sessions' = sessions
                     /\ order' = order
                ELSE /\ call.returned = "session"
                     /\ Len(call.sent) = 1
                     /\ Len(call.db) = 1
                     /\ IF lastOp'.op = "endSession"
                        THEN /\ call.sent[1].type = "session-ended"
                             /\ call.sent[1].id = id
                             /\ DOMAIN call.sent[1] = {"type", "id"}
                        ELSE /\ call.sent[1].type = "session-update"
                             /\ call.sent[1].data = toResponse(id, sessions'[id], now)]_vars

\* setPendingState has just changed a known session and broadcast it, and
\* the registry also holds an ended session
C20_Witness ==
    /\ lastOp.op = "setPendingState"
    /\ lastOp.calls[1].found
    /\ Len(lastOp.calls[1].sent) = 1
    /\ lastOp.calls[1].sent[1].data.pendingState = "permission_prompt"
    /\ \E other \in DOMAIN sessions : sessions[other].status = "ended"

\* How many of the calls broadcast the message
TimesSent(calls, message) ==
    Cardinality({i \in 1..Len(calls) :
                   \E k \in 1..Len(calls[i].sent) : calls[i].sent[k] = message})

\* C21: a pass broadcasts session-ended for an id at most once, and only when
\* the pass took the session from not ended to ended.
C21_EndedSentOncePerTransition ==
    [][lastOp'.op = "scan" =>
         \A id \in DOMAIN sessions :
            TimesSent(lastOp'.calls, SessionEnded(id))
               <= IF ~IsEnded(sessions, id) /\ IsEnded(sessions', id) THEN 1 ELSE 0]_vars

\* C22: when the write inside createSession, updateActivity, setPendingState
\* or endSession fails, the call does not throw and still broadcasts its one
\* message for the session as the call left it.
C22_FailedWriteStillNotifies ==
    [][lastOp'.op = "writeFailed" =>
         LET id == lastOp'.id
             call == lastOp'.calls[1]
         IN  /\ call.returned = "session"
             /\ call.sent = IF call.call = "endSession"
                            THEN <<SessionEnded(id)>>
                            ELSE <<SessionUpdate(id, sessions'[id], now)>>]_vars

\* C23: no step removes an id from the registry, and the registry holds each
\* of its ids once.
C23_IdsOnlyGrow ==
    [][/\ DOMAIN sessions \subseteq DOMAIN sessions'
       /\ {order'[i] : i \in 1..Len(order')} = DOMAIN sessions'
       /\ Len(order') = Cardinality(DOMAIN sessions')]_vars

\* A pass has run over a registry of two sessions, one of them ended
C23_Witness ==
    /\ lastOp.op = "scan"
    /\ Cardinality(DOMAIN sessions) = 2
    /\ Len(order) = 2
    /\ \E id \in DOMAIN sessions : IsEnded(sessions, id)

\* C24: no step, a restart included, takes the lastActivity of a session to
\* an earlier value.
C24_LastActivityNeverRewound ==
    [][\A id \in DOMAIN sessions \cap DOMAIN sessions' :
          sessions'[id].lastActivity >= sessions[id].lastActivity]_vars

\* C25: the projectPath (and with it the projectName), startedAt and
\* transcriptPath of a session in the registry are the same after every step.
C25_ProvenanceImmutable ==
    [][\A id \in DOMAIN sessions :
          /\ id \in DOMAIN sessions'
          /\ sessions'[id].projectPath = sessions[id].projectPath
          /\ sessions'[id].startedAt = sessions[id].startedAt
          /\ sessions'[id].transcriptPath = sessions[id].transcriptPath]_vars

\* C26: while a pass is in progress the only step taken is the next
\* statement of that pass: no event is handled and no other pass starts until
\* it has finished.
C26_PassRunsAlone ==
    [][lastOp.op \in ScanPhases =>
          /\ lastOp.op = "scan:refreshed" => lastOp'.op = "scan:cleaned"
          /\ lastOp.op = "scan:cleaned" => lastOp'.op = "scan:gathered"
          /\ lastOp.op = "scan:gathered" => lastOp'.op = "scan"
          /\ lastOp'.processCountPerCwd = lastOp.processCountPerCwd
          /\ rawLast' = rawLast]_vars

\* A pass is half way: it has ended a session that event handling had left
\* waiting, and has not imported yet
C26_Witness ==
    /\ lastOp.op = "scan:cleaned"
    /\ \E id \in DOMAIN sessions :
          IsEnded(sessions, id) /\ sessions[id].lastTool = "Bash"

RegistrySteps == {"sessions.set", "session.assign"}
SessionWrites == {"db.upsertSession", "db.updateSessionActivity",
                  "db.updatePendingState", "db.endSession"}
BroadcastSteps == {"broadcaster.broadcastSessionUpdate", "broadcaster.broadcastSessionEnded"}

\* C27: in a call of createSession, updateActivity, setPendingState or
\* endSession that finds or creates its session, the session is changed
\* first, then written to the sessions table, then broadcast: the broadcast
\* is the last statement and comes after the write, which comes after the
\* change.
C27_MutatePersistNotify ==
    [][(lastOp'.op \in SnapshotCalls \cup {"endSession"} /\ lastOp'.calls[1].returned = "session") =>
         LET steps == lastOp'.calls[1].steps
             At(kinds) == {i \in 1..Len(steps) : steps[i] \in kinds}
         IN  /\ Cardinality(At(RegistrySteps)) = 1
             /\ Cardinality(At(SessionWrites)) = 1
             /\ At(BroadcastSteps) = {Len(steps)}
             /\ \A i \in At(RegistrySteps), j \in At(SessionWrites), k \in At(BroadcastSteps) :
                   i < j /\ j < k]_vars

\* endSession has run on a session with an open permission request
C27_Witness ==
    /\ lastOp.op = "endSession"
    /\ lastOp.calls[1].returned = "session"
    /\ Len(lastOp.calls[1].steps) = 5
    /\ lastOp.calls[1].steps[1] = "db.resolvePermissionRequest"
    /\ IsEnded(sessions, lastOp.id)

\* The sessions of a path that are not ended
LiveOnPath(S, p) == {id \in DOMAIN S : S[id].projectPath = p /\ ~IsEnded(S, id)}

\* C28: when a pass has finished, no path has more sessions that are not
\* ended than the pass's snapshot had processes for it.
C28_LiveWithinProcessCount ==
    [][lastOp'.op = "scan" =>
         \A p \in DOMAIN lastOp'.processCountPerCwd :
            Cardinality(LiveOnPath(sessions', p)) <= lastOp'.processCountPerCwd[p]]_vars

\* C29: for every session a pass inserts, the pass broadcasts one
\* session-update carrying that session.
C29_ImportAnnounced ==
    [][lastOp'.op = "scan" =>
         \A id \in DOMAIN sessions' \ DOMAIN sessions :
            TimesSent(lastOp'.calls, SessionUpdate(id, sessions'[id], now)) = 1]_vars

\* C30: a statement of a pass ends or inserts a session only when the pass
\* has gathered both the process snapshot and the transcript candidates.
C30_GatherBeforeApply ==
    [][(/\ lastOp.op \in ScanPhases
        /\ \E id \in DOMAIN sessions' :
              \/ id \notin DOMAIN sessions
              \/ ~IsEnded(sessions, id) /\ IsEnded(sessions', id))
          => lastOp.op = "scan:gathered"]_vars

\* C31: a pass counts every process that can be inspected, whatever the
\* others do, and imports from every directory whose index can be read the
\* session of a path with a process, whatever happens in the other
\* directories; and it returns.
C31_FailuresIsolated ==
    [][lastOp'.op = "scan" =>
         LET listed == lastOp'.listed
             dirs == lastOp'.dirs
         IN  /\ \A p \in Paths :
                   lastOp'.processCountPerCwd[p] =
                      Cardinality({i \in 1..Len(listed) :
                                     listed[i].cwd = p /\ listed[i].inspectable})
             /\ \A d \in 1..Len(dirs) :
                   dirs[d].read = "ok" =>
                      \A k \in 1..Len(dirs[d].entries) :
                         LET e == dirs[d].entries[k]
                         IN  (\E i \in 1..Len(listed) :
                                 listed[i].cwd = e.projectPath /\ listed[i].inspectable)
                                => /\ e.sessionId \in DOMAIN sessions'
                                   /\ sessions'[e.sessionId].projectPath = e.projectPath
             /\ lastOp'.returned = Cardinality(DOMAIN sessions')]_vars

\* The first directory could not be read, one process could not be
\* inspected, and the session of the second directory was imported
C31_Witness ==
    /\ lastOp.op = "scan"
    /\ lastOp.dirs[1].read = "throws"
    /\ lastOp.dirs[1].entries # << >>
    /\ \E i \in 1..Len(lastOp.listed) : ~lastOp.listed[i].inspectable
    /\ DOMAIN sessions = {"s2"}

MirroredFields ==
    {"projectPath", "startedAt", "transcriptPath", "lastActivity", "lastTool",
     "lastToolInput", "pendingState", "pendingMessage"}

\* C32: the registry that a restart would load from the sessions table holds
\* for every id the record the registry in memory holds: the same
\* provenance, lastActivity, tool and pending fields, and ended or not alike.
C32_TableMirrorsRegistry ==
    LET loaded == dbGetAllSessions(lastOp.table)
    IN  /\ DOMAIN loaded = DOMAIN sessions
        /\ \A id \in DOMAIN sessions :
              /\ \A f \in MirroredFields : loaded[id][f] = sessions[id][f]
              /\ IsEnded(loaded, id) = IsEnded(sessions, id)

StatusRank(status) ==
    IF status = "active" THEN 1 ELSE IF status = "idle" THEN 2 ELSE 3

\* C33: while nothing is done to a session that is not ended, the status
\* derived for it goes active, idle, stale and never back, and a step of one
\* millisecond never takes it from active to stale; it becomes active again
\* only by a step that stamps lastActivity with the current time.
C33_StatusMovesForward ==
    [][\A id \in DOMAIN sessions :
          LET before == calculateStatus(sessions[id], now)
              after == calculateStatus(sessions'[id], now')
          IN  /\ (~IsEnded(sessions, id) /\ sessions'[id] = sessions[id]) =>
                    /\ StatusRank(after) >= StatusRank(before)
                    /\ now' = now + 1 => ~(before = "active" /\ after = "stale")
                    /\ now' = now + 1 => StatusRank(after) <= StatusRank(before) + 1
              /\ (before # "active" /\ after = "active") =>
                    sessions'[id].lastActivity = now']_vars

\* A session has just turned stale by a step of one millisecond
C33_Witness ==
    \E id \in DOMAIN sessions :
        /\ lastOp.op = "ms"
        /\ now - sessions[id].lastActivity = IDLE_THRESHOLD
        /\ sessions[id].lastActivity > 0
        /\ calculateStatus(sessions[id], now) = "stale"


\* The rows of R whose resolution differs in R2
ResolvedBetween(R, R2) ==
    {i \in DOMAIN R : R2[i].resolution # R[i].resolution}

\* What clearing a pending state does to the table: one latest unresolved
\* row of the session gets the resolution, every other row stays
ClearingResolves(S, R, R2, id, resolution) ==
    IF hasSession(S, id) /\ S[id].pendingState = "permission_prompt"
          /\ Unresolved(R, id) # {}
    THEN \E i \in MostRecentUnresolved(R, id) :
            R2 = [R EXCEPT ![i].resolution = resolution]
    ELSE R2 = R

\* C34: updateActivity on a session whose pending state is permission_prompt
\* marks that session's most recent unresolved permission request approved,
\* endSession on such a session marks it timeout, and when the pending state
\* is another kind or none (or the id is unknown) no request is resolved;
\* no other call resolves a request
C34_ResolutionFollowsClearing ==
    [][LET R == lastOp.requests
           R2 == lastOp'.requests
           id == lastOp'.id
       IN  /\ lastOp'.op = "updateActivity" =>
                 ClearingResolves(sessions, R, R2, id, "approved")
           /\ lastOp'.op = "endSession" =>
                 ClearingResolves(sessions, R, R2, id, "timeout")
           /\ lastOp'.op \notin {"updateActivity", "endSession"} =>
                 /\ Len(R2) >= Len(R)
                 /\ ResolvedBetween(R, R2) = {}]_vars

\* Reached: one request approved by a tool event and a later one of the same
\* session timed out by the end
C34_Witness ==
    /\ lastOp.op = "endSession"
    /\ \E i, j \in DOMAIN lastOp.requests :
          /\ lastOp.requests[i].sessionId = lastOp.id
          /\ lastOp.requests[i].resolution = "approved"
          /\ lastOp.requests[j].sessionId = lastOp.id
          /\ lastOp.requests[j].resolution = "timeout"

\* C35: every session has at most one unresolved permission request, and none
\* unless its pending state is permission_prompt
C35_OneOpenRequestPerSession ==
    \A id \in Ids :
        /\ Cardinality(Unresolved(lastOp.requests, id)) <= 1
        /\ Unresolved(lastOp.requests, id) # {} =>
              /\ hasSession(sessions, id)
              /\ sessions[id].pendingState = "permission_prompt"

\* The entry at position i of the index is among the n most recently
\* modified of its projectPath (the sort is stable: ties keep index order)
AmongMostRecent(index, i, n) ==
    Cardinality({ j \in DOMAIN index :
                    /\ index[j].projectPath = index[i].projectPath
                    /\ \/ index[j].modified > index[i].modified
                       \/ index[j].modified = index[i].modified /\ j < i }) < n

\* C36: a pass leaves a session that was ended before it as it is: no field
\* changes, no endSession or importSession call names it, and when its
\* transcript is among the N most recently modified of a path with N
\* processes, the pass imports fewer than N sessions for that path
C36_EndedUntouchedByPass ==
    [][lastOp'.op = "scan" =>
         \A id \in DOMAIN sessions :
            IsEnded(sessions, id) =>
               /\ sessions'[id] = sessions[id]
               /\ \A c \in DOMAIN lastOp'.calls : lastOp'.calls[c].id # id
               /\ \A i \in DOMAIN lastOp'.index :
                     LET e == lastOp'.index[i]
                         n == getProcessCount(lastOp'.processCountPerCwd, e.projectPath)
                     IN  (e.sessionId = id /\ AmongMostRecent(lastOp'.index, i, n)) =>
                            Cardinality({ k \in DOMAIN sessions' \ DOMAIN sessions :
                                            sessions'[k].projectPath = e.projectPath }) < n]_vars

\* Reached: s1 was ended before the pass, its transcript is the most recent
\* of /a, one process runs on /a, and the entry of s3 is not imported
C36_Witness ==
    /\ lastOp.op = "scan"
    /\ getProcessCount(lastOp.processCountPerCwd, ProjectPath) = 1
    /\ hasSession(sessions, "s1") /\ IsEnded(sessions, "s1")
    /\ sessions["s1"].lastActivity = 0
    /\ \A c \in DOMAIN lastOp.calls : lastOp.calls[c].id # "s1"
    /\ \E i, j \in DOMAIN lastOp.index :
          /\ lastOp.index[i].sessionId = "s1"
          /\ lastOp.index[j].sessionId = "s3"
          /\ lastOp.index[i].modified > lastOp.index[j].modified
    /\ ~hasSession(sessions, "s3")

\* C37: startPeriodicScan with no timer running runs one pass at once and
\* arms one timer due an interval later; with a timer running it runs no
\* pass and arms nothing; a scheduled pass runs only when the running timer
\* is due, one per interval; at most one timer is armed at any time, and
\* after stopPeriodicScan none is, so no scheduled pass runs until the next
\* start
C37_OnePeriodicTimer ==
    [][LET L == lastOp
           L2 == lastOp'
       IN  /\ Cardinality(L2.timers) <= 1
           /\ (L2.scanInterval = NoInterval) <=> (L2.timers = {})
           /\ L2.op = "start" =>
                 /\ L.timers = {}
                 /\ L2.passes = 1
                 /\ L2.timers = {[id |-> L2.scanInterval, due |-> now + SCAN_INTERVAL]}
           /\ L2.op = "start:running" =>
                 /\ L.timers # {}
                 /\ L2.passes = 0
                 /\ L2.timers = L.timers
                 /\ UNCHANGED <<sessions, order>>
           /\ L2.op = "interval" =>
                 /\ L.scanInterval # NoInterval
                 /\ L.timers = {[id |-> L.scanInterval, due |-> now]}
                 /\ L2.passes = 1
                 /\ L2.timers = {[id |-> L.scanInterval, due |-> now + SCAN_INTERVAL]}
           /\ L2.op \in {"stop", "stop:idle"} =>
                 /\ L2.timers = {}
                 /\ L2.passes = 0
                 /\ UNCHANGED <<sessions, order>>
           /\ L2.op = "clock" =>
                 /\ L2.timers = L.timers
                 /\ \A tm \in L.timers : tm.due >= now']_vars

\* Reached: a second timer, armed by a start after a stop, fires an interval
\* after that start, with startPeriodicScan having been called on the way
C37_Witness ==
    /\ lastOp.op = "interval"
    /\ lastOp.created = 2
    /\ lastOp.scanInterval = 2
    /\ now = SCAN_INTERVAL + SCAN_INTERVAL \div 2
    /\ hasSession(sessions, "s2")

\* C38: when the dashboard handles session-ended for an id it holds, its
\* copy of that session has status ended and no pending state
C38_ClientAgreesOnEnded ==
    [][(lastOp'.op = "receive" /\ Head(lastOp.inbox).type = "session-ended"
           /\ Head(lastOp.inbox).id \in DOMAIN lastOp.view) =>
          LET copy == lastOp'.view[Head(lastOp.inbox).id]
          IN  /\ copy.status = "ended"
              /\ copy.pendingState = null
              /\ copy.pendingMessage = ""]_vars

\* The sessions of the registry as a reader sees them
RegistryView(S, t) == [id \in DOMAIN S |-> toResponse(id, S[id], t)]

\* C39: a connecting socket joins the broadcast set and is sent the current
\* session list in the same step; from then on every change of the registry
\* sends at least one message while the socket is open; a socket that
\* closed or failed is no longer in the set
C39_ChangesReachClients ==
    [][/\ lastOp'.op = "connect" =>
             /\ lastOp'.id \in lastOp'.clients
             /\ lastOp'.inbox = Append(lastOp.inbox, SessionsMessage(sessions, order, now))
       /\ (lastOp.clients \cap lastOp.open # {}
              /\ RegistryView(sessions', now') # RegistryView(sessions, now)) =>
             Len(lastOp'.inbox) > Len(lastOp.inbox)
       /\ lastOp'.clients \cap lastOp'.closed = {}]_vars

\* The sockets that are connecting or open
LiveSockets(L) ==
    {k \in DOMAIN L.readyState : L.readyState[k] \in {"connecting", "open"}}

\* C40: at most one socket of an OverwatchWebSocket is connecting or open,
\* and from disconnect() until the next connect() no reconnect is pending
C40_OneSocketNoReconnect ==
    /\ Cardinality(LiveSockets(lastOp)) <= 1
    /\ ~lastOp.shouldReconnect => ~lastOp.reconnectTimer

====
